---- MODULE Spec2Model ----
(***************************************************************************)
(* A model of cctools.CCBrowser: the TTL-gated CSV cache under the single  *)
(* download lock, the login and export protocol, and the cleaning of the   *)
(* rows read from the cache files.                                         *)
(*                                                                         *)
(* A "process" of the model is one CCBrowser instance together with the    *)
(* script that owns it.  An exception that leaves a getter is fatal to the *)
(* script (no caller in the repository catches it and goes on using the    *)
(* same instance), so a process that raised makes no further call.         *)
(***************************************************************************)
EXTENDS Integers, Sequences, FiniteSets, TLC

(***************************************************************************)
(* Bounds of the model.                                                    *)
(***************************************************************************)
NumProcs == 2   \* browser instances running on the machine
MaxCalls == 2   \* getter calls made in total
MaxPolls == 2   \* processExportCycle requests of one export
MaxTime == 2    \* the clock runs from 0 to MaxTime
CacheTtl == 1   \* the non-zero cache_ttl an instance may be built with

Procs == 1..NumProcs
NoProc == 0

Resources == {"products", "categories", "personalizations", "product_options"}

(***************************************************************************)
(* File names in the cache directory.                                      *)
(***************************************************************************)
CacheFile(r) == r \o ".csv"
TmpFile(r) == CacheFile(r) \o ".tmp"
FileNames == {CacheFile(r) : r \in Resources} \cup {TmpFile("product_options")}

(***************************************************************************)
(* CSV data: a header (the field names of the first line) and the value    *)
(* rows.  split(",") and join(",") are kept at the level of field lists.   *)
(***************************************************************************)
Csv(header, rows) == [header |-> header, rows |-> rows]
EmptyCsv == Csv(<<>>, <<>>)
NoFile == [exists |-> FALSE, mtime |-> 0, data |-> EmptyCsv]
NoneVal == "<None>"
NoneKey == "<None>"

ProductBooleans ==
    << "Available",
       "Customer Must Add To Cart To See Sales Price",
       "Discontinued Item",
       "Display Facebook LIKE",
       "Display Facebook Link",
       "Display Twitter Link",
       "Eligible For Reward Points",
       "Featured Product",
       "Ignore Default Images",
       "Include in Bing Product Feed",
       "Include in Google Product Feed",
       "Password protect this product",
       "Request a Lower Price",
       "Taxable (GST)",
       "Taxable (HST)",
       "Taxable (PST)",
       "Taxable",
       "Use Main Photo as Product Detail Thumbnail",
       "Use Sale Price",
       "Use Tab Navigation" >>

PersonalizationBooleans ==
    << "Answer Enabled",
       "Default",
       "Exclude from best seller report",
       "Question Enabled",
       "Required",
       "Track Inventory" >>

HideCategory == "Hide This Category From Customers"
UseFirstOptionValue == "Use First Option Value"

Range(s) == {s[i] : i \in 1..Len(s)}

(***************************************************************************)
(* What the site exports.  Boolean columns hold "Y", "N", the empty string *)
(* or something else; over the rows of the two exports of a resource every *)
(* boolean column takes each of the four values.  The data of the site     *)
(* changes with time: SiteData(r, t) is what an export of r saved at time  *)
(* t holds.                                                                *)
(***************************************************************************)
CsvValues == <<"Y", "N", "", "Yes">>
PatternRow(first, n, k) ==
    <<first>> \o [i \in 1..n |-> CsvValues[((i + k) % 4) + 1]]

ProductsHeader == <<"SKU", "Product Name", "Category">> \o ProductBooleans
PersonalizationsHeader == <<"Product SKU">> \o PersonalizationBooleans
CategoriesHeader == <<"Category Name", "Sort", HideCategory>>
\* The product options export repeats its column names, and each record has
\* one field more than the header.
ProductOptionsHeader ==
    << "Product SKU",
       "Option Group Name", UseFirstOptionValue, "Option Name",
       "Option Group Name", UseFirstOptionValue, "Option Name" >>

Exports(r) ==
    CASE r = "products" ->
           << Csv(ProductsHeader,
                  << <<"1001", "Tote">> \o PatternRow("Bags", 20, 0),
                     <<"1002", "Cap">> \o PatternRow("Hats", 20, 1) >>),
              Csv(ProductsHeader,
                  << <<"1001", "Tote">> \o PatternRow("Bags", 20, 2),
                     <<"1003", "Tote">> \o PatternRow("Gifts", 20, 3) >>) >>
      [] r = "categories" ->
           << Csv(CategoriesHeader, <<<<"Bags", "10", "Y">>, <<"Hats", "20", "">>>>),
              Csv(CategoriesHeader, <<<<"Bags", "10", "N">>, <<"Toys", "5", "Yes">>>>) >>
      [] r = "personalizations" ->
           << Csv(PersonalizationsHeader, <<PatternRow("1001", 6, 0), PatternRow("1001", 6, 1)>>),
              Csv(PersonalizationsHeader, <<PatternRow("1002", 6, 2), PatternRow("1002", 6, 3)>>) >>
      [] r = "product_options" ->
           << Csv(ProductOptionsHeader,
                  << <<"1001", "Size", "Y", "Small", "Color", "", "Red", "">>,
                     <<"1001", "Size", "Yes", "Large", "Color", "N", "Red", "">> >>),
              Csv(ProductOptionsHeader,
                  << <<"1003", "Size", "N", "Small", "Color", "Yes", "Blue", "">> >>) >>

SiteData(r, t) == Exports(r)[(t % 2) + 1]

(***************************************************************************)
(* uniquify_header and repair_product_options_csv.                         *)
(***************************************************************************)
\* "{} [{}]".format(field, count)
Suffixed(field, count) == field \o " [" \o ToString(count) \o "]"

\* The inner loop: for j in range(i, len(fields)), over the list as it is
\* being rewritten.
RECURSIVE RenameFrom(_, _, _, _)
RenameFrom(fields, field, j, count) ==
    IF j > Len(fields) THEN fields
    ELSE IF fields[j] = field
         THEN RenameFrom([fields EXCEPT ![j] = Suffixed(field, count)],
                         field, j + 1, count + 1)
         ELSE RenameFrom(fields, field, j + 1, count)

\* Mutant: the first occurrence keeps its name and the later ones are
\* numbered from 2.
RECURSIVE UniquifyKeepFirst(_, _)
UniquifyKeepFirst(fields, i) ==
    IF i > Len(fields) THEN fields
    ELSE IF \E k \in (i + 1)..Len(fields) : fields[k] = fields[i]
         THEN UniquifyKeepFirst(RenameFrom(fields, fields[i], i + 1, 2), i + 1)
         ELSE UniquifyKeepFirst(fields, i + 1)

\* The outer loop: enumerate(fields) reads fields[i] when it gets there.
RECURSIVE UniquifyFrom(_, _)
UniquifyFrom(fields, i) ==
    IF i > Len(fields) THEN fields
    ELSE IF \E k \in (i + 1)..Len(fields) : fields[k] = fields[i]
         THEN UniquifyFrom(RenameFrom(fields, fields[i], i, 1), i + 1)
         ELSE UniquifyFrom(fields, i + 1)

\* line.strip(), on the fields of the line: the white space that starts the
\* first field and the white space that ends the last one go.
IsSpace(c) == c = " "

RECURSIVE LStrip(_)
LStrip(s) ==
    IF Len(s) > 0 /\ IsSpace(SubSeq(s, 1, 1)) THEN LStrip(SubSeq(s, 2, Len(s))) ELSE s

RECURSIVE RStrip(_)
RStrip(s) ==
    IF Len(s) > 0 /\ IsSpace(SubSeq(s, Len(s), Len(s)))
    THEN RStrip(SubSeq(s, 1, Len(s) - 1)) ELSE s

strip(fields) ==
    [i \in 1..Len(fields) |->
        IF i = 1 /\ i = Len(fields) THEN RStrip(LStrip(fields[i]))
        ELSE IF i = 1 THEN LStrip(fields[i])
        ELSE IF i = Len(fields) THEN RStrip(fields[i])
        ELSE fields[i]]

uniquify_header(fields) == UniquifyFrom(strip(fields), 1)

\* The first line goes through uniquify_header, the others are copied.
repair_product_options_csv(tmp) ==
    IF tmp = EmptyCsv THEN EmptyCsv
    ELSE Csv(uniquify_header(tmp.header), tmp.rows)

(***************************************************************************)
(* csv.DictReader: one dictionary per record.  A name that occurs twice in *)
(* the header keeps the value of its last column; the fields of a record   *)
(* longer than the header go, as a list, under restkey; the columns a      *)
(* short record lacks map to None.                                         *)
(***************************************************************************)
LastColumn(header, name) ==
    CHOOSE i \in 1..Len(header) :
        /\ header[i] = name
        /\ \A j \in (i + 1)..Len(header) : header[j] # name

DictRow(header, row, restkey) ==
    LET names == Range(header)
        keys == names \cup (IF Len(row) > Len(header) THEN {restkey} ELSE {})
    IN  [k \in keys |->
            IF Len(row) > Len(header) /\ k = restkey
            THEN SubSeq(row, Len(header) + 1, Len(row))
            ELSE IF LastColumn(header, k) <= Len(row)
                 THEN row[LastColumn(header, k)]
                 ELSE NoneVal]

DictReader(data, restkey) ==
    [i \in 1..Len(data.rows) |-> DictRow(data.header, data.rows[i], restkey)]

RestKey(r) == IF r = "product_options" THEN "Extra" ELSE NoneKey

(***************************************************************************)
(* The _clean_* methods.                                                   *)
(***************************************************************************)
\* dict[key] = value
DictSet(d, key, value) ==
    [k \in DOMAIN d \cup {key} |-> IF k = key THEN value ELSE d[k]]

YN == {"Y", "N"}

\* for boolean in booleans: if not row[boolean] in ("Y", "N"): row[boolean] = "N"
CleanBooleans(row, booleans) ==
    [k \in DOMAIN row |->
        IF k \in Range(booleans) /\ row[k] \notin YN THEN "N" ELSE row[k]]

\* Mutant: only the empty string is taken for "N".
CleanProductsOnlyEmpty(rows) ==
    [i \in 1..Len(rows) |->
        [k \in DOMAIN rows[i] |->
            IF k \in Range(ProductBooleans) /\ rows[i][k] = "" THEN "N" ELSE rows[i][k]]]

_clean_products(rows) ==
    [i \in 1..Len(rows) |-> CleanBooleans(rows[i], ProductBooleans)]

_clean_personalizations(rows) ==
    [i \in 1..Len(rows) |-> CleanBooleans(rows[i], PersonalizationBooleans)]

\* str.startswith
StartsWith(s, prefix) ==
    /\ Len(s) >= Len(prefix)
    /\ SubSeq(s, 1, Len(prefix)) = prefix

_clean_product_options(rows) ==
    [i \in 1..Len(rows) |->
        [k \in DOMAIN rows[i] |->
            IF StartsWith(k, UseFirstOptionValue) /\ rows[i][k] \notin YN
            THEN "N" ELSE rows[i][k]]]

\* The test reads "Hide This Category From Customers"; the assignment is to
\* the key "Available".
CleanCategory(row) ==
    IF row[HideCategory] \notin YN THEN DictSet(row, "Available", "N") ELSE row

_clean_categories(rows) ==
    [i \in 1..Len(rows) |-> CleanCategory(rows[i])]

Clean(r, rows) ==
    CASE r = "products" -> _clean_products(rows)
      [] r = "categories" -> _clean_categories(rows)
      [] r = "personalizations" -> _clean_personalizations(rows)
      [] r = "product_options" -> _clean_product_options(rows)

(***************************************************************************)
(* The state.                                                              *)
(***************************************************************************)
VARIABLES
    now,        \* time.time()
    files,      \* the cache directory: file name -> [exists, mtime, data]
    lock,       \* the holder of the "download" lock file, or NoProc
    ncalls,     \* getter calls made so far
    pc,         \* where each process is
    res,        \* the resource of the process's current (or last) getter call
    log,        \* what the current getter call has done so far
    logged_in,  \* self._logged_in
    memo,       \* self._products, self._categories, ...
    cache_ttl,  \* self._cache_ttl
    clean,      \* self._clean
    current,    \* the local variable current of _do_export
    response_object,  \* the local variable response_object of _do_export
    nlogin,     \* login form submits of the instance so far
    line,       \* the fields of a header line given to uniquify_header
    fixed,      \* what uniquify_header returned, one entry per application
    tables,     \* what get_products(), get_personalizations() and
                \* get_product_options() return to get_variants()
    variants,   \* self._variants
    questions,  \* self._questions
    category_sort,  \* self._category_sort
    helper,     \* the sort key helper each process is in, and where
    nkeys,      \* sort key helper calls made so far
    keys,       \* the keys the helpers returned to each process
    sortargs,   \* the categories and the products given to the product keys
    sortkeys,   \* the keys of the products of sortargs
    ordered,    \* the products of sortargs as sorted() returned them
    grouped,    \* the groups itertools.groupby() made of them
    priceargs,  \* what calc_event_price is given
    price,      \* what calc_event_price returned
    retail      \* what calc_retail_price returned for that event price

\* The variables of the checks of the functions that work on their
\* arguments alone; the steps of the browser leave them as they are.
headerv == << line, fixed >>
variantsv == << tables, variants, questions >>
keysv == << category_sort, helper, nkeys, keys >>
sortv == << sortargs, sortkeys, ordered, grouped >>
pricev == << priceargs, price, retail >>
derived == << headerv, variantsv, keysv, sortv, pricev >>

vars == << now, files, lock, ncalls, pc, res, log, logged_in, memo,
           cache_ttl, clean, current, response_object, nlogin, derived >>

\* No such function has been given anything.
HeaderIdle ==
    /\ line = <<>>
    /\ fixed = <<>>

NoTables == [products |-> <<>>, personalizations |-> <<>>, product_options |-> <<>>]
NoVariants == [set |-> FALSE, rows |-> <<>>, raised |-> FALSE]
NoQuestions == [set |-> FALSE, rows |-> <<>>]

VariantsIdle ==
    /\ tables = NoTables
    /\ variants = NoVariants
    /\ questions = NoQuestions

\* self._category_sort = None, and no helper has been called.
NoCategorySort == [set |-> FALSE, sort |-> <<>>]
NoHelper == [fn |-> "none", arg |-> <<>>, stage |-> "none",
             called_in |-> [sorted |-> FALSE, products |-> FALSE]]

KeysIdle ==
    /\ category_sort = [p \in Procs |-> NoCategorySort]
    /\ helper = [p \in Procs |-> NoHelper]
    /\ nkeys = 0
    /\ keys = [p \in Procs |-> <<>>]

NoSortArgs == [categories |-> <<>>, products |-> <<>>]

NoOrdered == [set |-> FALSE, products |-> <<>>]
NoGroups == [set |-> FALSE, groups |-> <<>>]

SortUnused ==
    /\ ordered = NoOrdered
    /\ grouped = NoGroups

SortIdle ==
    /\ sortargs = NoSortArgs
    /\ sortkeys = <<>>
    /\ SortUnused

NoPriceArgs == [retail_price |-> 0, discount_percent |-> 0, sales_tax_percent |-> 0]
NoPrice == [set |-> FALSE, value |-> 0]

NoRetail == [set |-> FALSE, value |-> [m |-> <<>>, e |-> 0]]

PriceIdle ==
    /\ priceargs = NoPriceArgs
    /\ price = NoPrice
    /\ retail = NoRetail

DerivedIdle == HeaderIdle /\ VariantsIdle /\ KeysIdle /\ SortIdle /\ PriceIdle

NoMemo == [set |-> FALSE, rows |-> <<>>]
Memo(rows) == [set |-> TRUE, rows |-> rows]

\* The requests a getter may issue, named as the steps that issue them.
Requests ==
    {"login_open", "login_submit", "export_open", "export_submit", "poll", "retrieve"}

Append2(s, a, b) == Append(Append(s, a), b)
CountOf(s, e) == Cardinality({i \in 1..Len(s) : s[i] = e})

\* The cursors the site may answer with.
Cursors == {1, 2}

\* The answer to a processExportCycle request, and none received yet.
Response(percentComplete, cursor) ==
    [received |-> TRUE, percentComplete |-> percentComplete, current |-> cursor]
NoResponse == [received |-> FALSE, percentComplete |-> 0, current |-> 0]

(***************************************************************************)
(* CCBrowser.__init__: nothing cached in memory, not logged in.  The cache *)
(* directory starts empty.                                                 *)
(***************************************************************************)
Init ==
    /\ now = 0
    /\ files = [f \in FileNames |-> NoFile]
    /\ lock = NoProc
    /\ ncalls = 0
    /\ pc = [p \in Procs |-> "idle"]
    /\ res = [p \in Procs |-> "products"]
    /\ log = [p \in Procs |-> <<>>]
    /\ logged_in = [p \in Procs |-> FALSE]
    /\ memo = [p \in Procs |-> [r \in Resources |-> NoMemo]]
    /\ cache_ttl \in [Procs -> {0, CacheTtl}]
    /\ clean \in [Procs -> BOOLEAN]
    /\ current = [p \in Procs |-> 0]
    /\ response_object = [p \in Procs |-> NoResponse]
    /\ nlogin = [p \in Procs |-> 0]
    /\ DerivedIdle

(***************************************************************************)
(* The clock.                                                              *)
(***************************************************************************)
Tick ==
    /\ now < MaxTime
    /\ now' = now + 1
    /\ UNCHANGED << files, lock, ncalls, pc, res, log, logged_in, memo,
                    cache_ttl, clean, current, response_object, nlogin >>
    /\ UNCHANGED derived

(***************************************************************************)
(* A getter: "if self._x is None:" and, when it is not, "return self._x".  *)
(* pc "with" is the with statement, where the process waits for the lock;  *)
(* pc "return" is the return statement reached with the if skipped.        *)
(***************************************************************************)
\* Mutant: the getter does not look at its memo.
MemoIgnored(p, r) == TRUE

MemoIsNone(p, r) == ~memo[p][r].set

Getter(p, r) ==
    /\ pc[p] = "idle"
    /\ ncalls < MaxCalls
    /\ ncalls' = ncalls + 1
    /\ res' = [res EXCEPT ![p] = r]
    /\ pc' = [pc EXCEPT ![p] = IF MemoIsNone(p, r) THEN "with" ELSE "return"]
    /\ UNCHANGED << now, files, lock, log, logged_in, memo, cache_ttl, clean,
                    current, response_object, nlogin >>
    /\ UNCHANGED derived

get_products(p) == Getter(p, "products")
get_categories(p) == Getter(p, "categories")
get_personalizations(p) == Getter(p, "personalizations")
get_product_options(p) == Getter(p, "product_options")

\* The value the getter returns: "return self._products".
Returned(p) == memo[p][res[p]].rows

Return(p) ==
    /\ pc[p] = "return"
    /\ pc' = [pc EXCEPT ![p] = "idle"]
    /\ UNCHANGED << now, files, lock, ncalls, res, log, logged_in, memo,
                    cache_ttl, clean, current, response_object, nlogin >>
    /\ UNCHANGED derived

(***************************************************************************)
(* "with lockfile.FileLock(self._download_lock_filename):" blocks until    *)
(* the one lock file of the cache directory is free.                       *)
(***************************************************************************)
\* Mutants: one lock file per resource; the with statement does not wait.
LockFreePerResource(p) == IF lock = NoProc THEN TRUE ELSE res[lock] # res[p]
LockIgnored(p) == TRUE

LockFree(p) == lock = NoProc

Acquire(p) ==
    /\ pc[p] = "with"
    /\ LockFree(p)
    /\ lock' = p
    /\ log' = [log EXCEPT ![p] = <<"lock">>]
    /\ pc' = [pc EXCEPT ![p] = "check"]
    /\ UNCHANGED << now, files, ncalls, res, logged_in, memo, cache_ttl,
                    clean, current, response_object, nlogin >>
    /\ UNCHANGED derived

(***************************************************************************)
(* _is_file_expired, and the branch on it.  _login returns at once when    *)
(* self._logged_in is set.                                                 *)
(***************************************************************************)
\* Mutants: the file expires when its age reaches cache_ttl; a missing file
\* is not taken for expired.
ExpiredAtTtl(file, ttl, t) ==
    \/ ~file.exists
    \/ file.mtime + ttl <= t

ExpiredUnlessMissing(file, ttl, t) ==
    /\ file.exists
    /\ file.mtime + ttl < t

_is_file_expired(file, ttl, t) ==
    \/ ~file.exists
    \/ file.mtime + ttl < t

\* Mutant: _login does not look at self._logged_in.
LoginAlways(p) == TRUE

NeedsLogin(p) == ~logged_in[p]

CheckCache(p) ==
    /\ pc[p] = "check"
    /\ log' = [log EXCEPT ![p] = Append(@, "stat")]
    /\ pc' = [pc EXCEPT ![p] =
                IF _is_file_expired(files[CacheFile(res[p])], cache_ttl[p], now)
                THEN (IF NeedsLogin(p) THEN "login_open" ELSE "export_open")
                ELSE "read"]
    /\ UNCHANGED << now, files, lock, ncalls, res, logged_in, memo,
                    cache_ttl, clean, current, response_object, nlogin >>
    /\ UNCHANGED derived

(***************************************************************************)
(* _login: open the login page and find the form "digiSHOP", then submit   *)
(* it and set self._logged_in.                                             *)
(***************************************************************************)
LoginOpen(p) ==
    /\ pc[p] = "login_open"
    /\ log' = [log EXCEPT ![p] = Append(@, "login_open")]
    /\ pc' = [pc EXCEPT ![p] = "login_submit"]
    /\ UNCHANGED << now, files, lock, ncalls, res, logged_in, memo,
                    cache_ttl, clean, current, response_object, nlogin >>
    /\ UNCHANGED derived

LoginSubmit(p) ==
    /\ pc[p] = "login_submit"
    /\ log' = [log EXCEPT ![p] = Append(@, "login_submit")]
    /\ nlogin' = [nlogin EXCEPT ![p] = @ + 1]
    /\ logged_in' = [logged_in EXCEPT ![p] = TRUE]
    /\ pc' = [pc EXCEPT ![p] = "export_open"]
    /\ UNCHANGED << now, files, lock, ncalls, res, memo, cache_ttl, clean,
                    current, response_object >>
    /\ UNCHANGED derived

(***************************************************************************)
(* _download_*_csv: open the export page of the resource; for products,    *)
(* select the form "jsform", set the category list to "All Categories"     *)
(* and submit it.  _do_export starts with current = 0.                     *)
(***************************************************************************)
\* Mutant: every export page has a form to submit.
HasExportFormAlways(r) == TRUE

HasExportForm(r) == r = "products"

ExportOpen(p) ==
    /\ pc[p] = "export_open"
    /\ log' = [log EXCEPT ![p] = Append(@, "export_open")]
    /\ pc' = [pc EXCEPT ![p] = IF HasExportForm(res[p]) THEN "export_submit" ELSE "poll"]
    /\ UNCHANGED << now, files, lock, ncalls, res, logged_in, memo,
                    cache_ttl, clean, current, response_object, nlogin >>
    /\ UNCHANGED derived

ExportSubmit(p) ==
    /\ pc[p] = "export_submit"
    /\ log' = [log EXCEPT ![p] = Append(@, "export_submit")]
    /\ pc' = [pc EXCEPT ![p] = "poll"]
    /\ UNCHANGED << now, files, lock, ncalls, res, logged_in, memo,
                    cache_ttl, clean, current, response_object, nlogin >>
    /\ UNCHANGED derived

(***************************************************************************)
(* _do_export: one processExportCycle request carrying current, which is 0 *)
(* at the first.  The answer holds percentComplete and current; the loop   *)
(* ends on 100.  The site answers 100 to the MaxPolls-th request at the    *)
(* latest.                                                                 *)
(***************************************************************************)
\* Mutant: the cursor of the answer is not taken over.
CurrentKept(answer, cur) == cur

\* current = response_object["current"]
NextCurrent(answer, cur) == answer.current

\* Mutants: no answer ends the loop; the loop gives up at an answer that is
\* not 100.
ExportNeverDone(answer) == FALSE
ExportGivenUp(answer) == answer.percentComplete # 0

\* if response_object["percentComplete"] == 100: break
ExportDone(answer) == answer.percentComplete = 100

Poll(p, percentComplete, cursor) ==
    /\ pc[p] = "poll"
    /\ percentComplete = 100 \/ CountOf(log[p], "poll") + 1 < MaxPolls
    /\ log' = [log EXCEPT ![p] = Append(@, "poll")]
    /\ response_object' = [response_object EXCEPT ![p] = Response(percentComplete, cursor)]
    /\ IF ExportDone(Response(percentComplete, cursor))
       THEN /\ pc' = [pc EXCEPT ![p] = "retrieve"]
            /\ UNCHANGED current
       ELSE /\ pc' = pc
            /\ current' = [current EXCEPT ![p] =
                              NextCurrent(Response(percentComplete, cursor), @)]
    /\ UNCHANGED << now, files, lock, ncalls, res, logged_in, memo,
                    cache_ttl, clean, nlogin >>
    /\ UNCHANGED derived

(***************************************************************************)
(* self._browser.retrieve(url, filename): the result file is saved; for    *)
(* product options under the name filename + ".tmp", which                 *)
(* repair_product_options_csv then copies to the cache file.  The local    *)
(* variables current and response_object end with _do_export.              *)
(***************************************************************************)
NeedsRepair(r) == r = "product_options"
\* Mutants: the result file is saved under the name of the cache file; it
\* is saved under the name of the products cache file.
DownloadFileNoTmp(r) == CacheFile(r)
DownloadFileProducts(r) == IF NeedsRepair(r) THEN TmpFile(r) ELSE CacheFile("products")

DownloadFile(r) == IF NeedsRepair(r) THEN TmpFile(r) ELSE CacheFile(r)

Retrieve(p) ==
    /\ pc[p] = "retrieve"
    /\ files' = [files EXCEPT ![DownloadFile(res[p])] =
                    [exists |-> TRUE, mtime |-> now,
                     data |-> SiteData(res[p], now)]]
    /\ log' = [log EXCEPT ![p] =
                 IF DownloadFile(res[p]) = CacheFile(res[p])
                 THEN Append2(@, "retrieve", "write")
                 ELSE Append(@, "retrieve")]
    /\ current' = [current EXCEPT ![p] = 0]
    /\ response_object' = [response_object EXCEPT ![p] = NoResponse]
    /\ pc' = [pc EXCEPT ![p] = IF NeedsRepair(res[p]) THEN "repair" ELSE "read"]
    /\ UNCHANGED << now, lock, ncalls, res, logged_in, memo, cache_ttl,
                    clean, nlogin >>
    /\ UNCHANGED derived

Repair(p) ==
    /\ pc[p] = "repair"
    /\ files' = [files EXCEPT ![CacheFile(res[p])] =
                    [exists |-> TRUE, mtime |-> now,
                     data |-> repair_product_options_csv(files[TmpFile(res[p])].data)]]
    /\ log' = [log EXCEPT ![p] = Append(@, "write")]
    /\ pc' = [pc EXCEPT ![p] = "read"]
    /\ UNCHANGED << now, lock, ncalls, res, logged_in, memo, cache_ttl,
                    clean, current, response_object, nlogin >>
    /\ UNCHANGED derived

(***************************************************************************)
(* The cache file is read into the memo and the rows are cleaned when      *)
(* self._clean is set.  pc "exit" is the end of the with block.            *)
(***************************************************************************)
\* Mutant: the rows are cleaned whatever self._clean is.
ReadRowsCleaned(p) ==
    Clean(res[p], DictReader(files[CacheFile(res[p])].data, RestKey(res[p])))

ReadRows(p) == DictReader(files[CacheFile(res[p])].data, RestKey(res[p]))

Read(p) ==
    /\ pc[p] = "read"
    /\ memo' = [memo EXCEPT ![p][res[p]] =
                  Memo(IF clean[p] THEN Clean(res[p], ReadRows(p)) ELSE ReadRows(p))]
    /\ log' = [log EXCEPT ![p] = Append(@, "read")]
    /\ pc' = [pc EXCEPT ![p] = "exit"]
    /\ UNCHANGED << now, files, lock, ncalls, res, logged_in, cache_ttl,
                    clean, current, response_object, nlogin >>
    /\ UNCHANGED derived

(***************************************************************************)
(* Leaving the with block releases the lock; the getter returns the memo.  *)
(***************************************************************************)
Exit(p) ==
    /\ pc[p] = "exit"
    /\ lock' = NoProc
    /\ log' = [log EXCEPT ![p] = <<>>]
    /\ pc' = [pc EXCEPT ![p] = "idle"]
    /\ UNCHANGED << now, files, ncalls, res, logged_in, memo, cache_ttl,
                    clean, current, response_object, nlogin >>
    /\ UNCHANGED derived

(***************************************************************************)
(* A request that fails: it is issued and an exception comes back (an HTTP *)
(* error, a form that is not found in the page, a poll answer that is not  *)
(* the expected JSON).  Nothing catches it: the with block releases the    *)
(* lock and the getter raises, which ends the script.                      *)
(***************************************************************************)
\* Mutant: the request that failed is issued again.
RaiseAndRetry(p) ==
    /\ pc[p] \in Requests
    /\ log' = [log EXCEPT ![p] = Append2(@, pc[p], "raise")]
    /\ UNCHANGED << now, files, lock, ncalls, pc, res, logged_in, memo,
                    cache_ttl, clean, current, response_object, nlogin >>
    /\ UNCHANGED derived

\* Mutant: the exception leaves the lock file behind.
RaiseHoldingLock(p) ==
    /\ pc[p] \in Requests
    /\ log' = [log EXCEPT ![p] = Append2(@, pc[p], "raise")]
    /\ nlogin' = [nlogin EXCEPT ![p] = IF pc[p] = "login_submit" THEN @ + 1 ELSE @]
    /\ current' = [current EXCEPT ![p] = 0]
    /\ response_object' = [response_object EXCEPT ![p] = NoResponse]
    /\ pc' = [pc EXCEPT ![p] = "raised"]
    /\ UNCHANGED << now, files, lock, ncalls, res, logged_in, memo, cache_ttl, clean >>
    /\ UNCHANGED derived

Raise(p) ==
    /\ pc[p] \in Requests
    /\ log' = [log EXCEPT ![p] = Append2(@, pc[p], "raise")]
    /\ nlogin' = [nlogin EXCEPT ![p] = IF pc[p] = "login_submit" THEN @ + 1 ELSE @]
    /\ current' = [current EXCEPT ![p] = 0]
    /\ response_object' = [response_object EXCEPT ![p] = NoResponse]
    /\ lock' = NoProc
    /\ pc' = [pc EXCEPT ![p] = "raised"]
    /\ UNCHANGED << now, files, ncalls, res, logged_in, memo, cache_ttl, clean >>
    /\ UNCHANGED derived

Next ==
    \/ Tick
    \/ \E p \in Procs :
        \/ get_products(p)
        \/ get_categories(p)
        \/ get_personalizations(p)
        \/ get_product_options(p)
        \/ Return(p)
        \/ Acquire(p)
        \/ CheckCache(p)
        \/ LoginOpen(p)
        \/ LoginSubmit(p)
        \/ ExportOpen(p)
        \/ ExportSubmit(p)
        \/ \E pct \in {50, 100}, c \in Cursors : Poll(p, pct, c)
        \/ Retrieve(p)
        \/ Repair(p)
        \/ Read(p)
        \/ Exit(p)
        \/ Raise(p)

Spec == Init /\ [][Next]_vars

(***************************************************************************)
(* Vocabulary of the properties.                                           *)
(***************************************************************************)
\* The cache file of the call of p.
OwnFile(p) == files[CacheFile(res[p])]

\* The file is there and its modification time is within cache_ttl of now.
WithinTtl(p) == OwnFile(p).exists /\ now - OwnFile(p).mtime <= cache_ttl[p]

\* p takes the step that checks the expiry of its cache file.
ChecksCache(p) == pc[p] = "check" /\ pc'[p] # "check"

InWithBlock(p) ==
    pc[p] \in {"check", "login_open", "login_submit", "export_open",
               "export_submit", "poll", "retrieve", "repair", "read", "exit"}

NoRequest(l) == \A i \in 1..Len(l) : l[i] \notin Requests
IndexOf(l, e) == CHOOSE i \in 1..Len(l) : l[i] = e

\* Column k of record i of the cache file, as the getter of p returned it.
ReturnedField(p, i, k) == Returned(p)[i][OwnFile(p).data.header[k]]

(***************************************************************************)
(* C1.  Cache hit: when the check of the cache file finds it present with  *)
(* a modification time within cache_ttl seconds of now, the getter goes on *)
(* to read the file with no request issued; a call that ends having issued *)
(* no request returns the records of the cache file, field by field (a     *)
(* field may differ only by the cleaning of a value that is not Y or N).   *)
(***************************************************************************)
C1_CacheHit ==
    /\ [][\A p \in Procs :
            (ChecksCache(p) /\ WithinTtl(p))
                => (pc'[p] = "read" /\ NoRequest(log'[p]))]_vars
    /\ [](\A p \in Procs :
            (pc[p] = "exit" /\ NoRequest(log[p])) =>
                /\ log[p] = <<"lock", "stat", "read">>
                /\ Len(Returned(p)) = Len(OwnFile(p).data.rows)
                /\ \A i \in 1..Len(Returned(p)) :
                     \A k \in 1..Len(OwnFile(p).data.header) :
                        \/ ReturnedField(p, i, k) = OwnFile(p).data.rows[i][k]
                        \/ /\ clean[p]
                           /\ OwnFile(p).data.rows[i][k] \notin YN
                           /\ ReturnedField(p, i, k) = "N")

\* A getter is about to return after a cache hit on a file another instance
\* wrote, at the very limit of the TTL.
C1_Witness ==
    \E p \in Procs :
        /\ pc[p] = "exit"
        /\ log[p] = <<"lock", "stat", "read">>
        /\ cache_ttl[p] = CacheTtl
        /\ now = OwnFile(p).mtime + cache_ttl[p]
        /\ memo[p][res[p]].set
        /\ Len(Returned(p)) > 0

(***************************************************************************)
(* C2.  Cache miss: when the check finds the cache file missing or older   *)
(* than cache_ttl, the getter starts a download, with the login first      *)
(* exactly when the instance has not logged in; a call that ends having    *)
(* issued a request has opened one export page, polled at least once,      *)
(* fetched one result file and written its cache file once, after at most  *)
(* one login, which came before the export page.                           *)
(***************************************************************************)
C2_CacheMiss ==
    /\ [][\A p \in Procs :
            (ChecksCache(p) /\ ~WithinTtl(p))
                => pc'[p] = (IF logged_in[p] THEN "export_open" ELSE "login_open")]_vars
    /\ [](\A p \in Procs :
            (pc[p] = "exit" /\ ~NoRequest(log[p])) =>
                /\ CountOf(log[p], "export_open") = 1
                /\ CountOf(log[p], "poll") >= 1
                /\ CountOf(log[p], "retrieve") = 1
                /\ CountOf(log[p], "write") = 1
                /\ CountOf(log[p], "read") = 1
                /\ CountOf(log[p], "login_open") = CountOf(log[p], "login_submit")
                /\ CountOf(log[p], "login_submit") <= 1
                /\ CountOf(log[p], "login_submit") = 1
                      => IndexOf(log[p], "login_submit") < IndexOf(log[p], "export_open")
                /\ OwnFile(p).exists)

\* The first get_categories() on an empty cache directory, with the non-zero
\* TTL: one login, one export, categories.csv written.
C2_Witness ==
    \E p \in Procs :
        /\ pc[p] = "exit"
        /\ res[p] = "categories"
        /\ cache_ttl[p] = CacheTtl
        /\ ncalls = 1
        /\ log[p] = << "lock", "stat", "login_open", "login_submit", "export_open",
                       "poll", "retrieve", "write", "read" >>
        /\ files["categories.csv"].exists
        /\ \A f \in FileNames \ {"categories.csv"} : ~files[f].exists

(***************************************************************************)
(* C3.  Memoization: a memo that is set never changes; a getter called     *)
(* with its memo set goes straight to its return statement, leaving the    *)
(* lock, the files and the log of requests as they are; so no process is   *)
(* ever at the with statement or inside the with block for a resource      *)
(* whose memo is set, except at the end of the block, where it has just    *)
(* been set.                                                               *)
(***************************************************************************)
C3_Memoization ==
    /\ [][\A p \in Procs : \A r \in Resources :
            memo[p][r].set => memo'[p][r] = memo[p][r]]_vars
    /\ [][\A p \in Procs :
            (pc[p] = "idle" /\ pc'[p] # "idle" /\ memo[p][res'[p]].set)
                => (pc'[p] = "return" /\ UNCHANGED << lock, files, log, now >>)]_vars
    /\ [](\A p \in Procs :
            /\ (pc[p] = "with" \/ (InWithBlock(p) /\ pc[p] # "exit"))
                  => ~memo[p][res[p]].set
            /\ pc[p] = "return"
                  => (memo[p][res[p]].set /\ lock # p /\ log[p] = <<>>))

\* A second call returns the memo although the cache file has expired
\* meanwhile.
C3_Witness ==
    \E p \in Procs :
        /\ pc[p] = "return"
        /\ OwnFile(p).exists
        /\ OwnFile(p).mtime + cache_ttl[p] < now

(***************************************************************************)
(* C4.  Mutual exclusion: no two processes are inside the with block at    *)
(* the same time, whatever resources they fetch.                           *)
(***************************************************************************)
C4_MutualExclusion ==
    \A p, q \in Procs : (p # q /\ InWithBlock(p)) => ~InWithBlock(q)

\* A process that fetches categories waits at the with statement while
\* another polls for its products export.
C4_Witness ==
    \E p, q \in Procs :
        /\ pc[p] = "poll" /\ res[p] = "products"
        /\ pc[q] = "with" /\ res[q] = "categories"
        /\ lock = p

(***************************************************************************)
(* C5.  With cache_ttl = 0 a getter that reaches the end of its with block *)
(* has downloaded the resource and rewritten its cache file, whatever the  *)
(* modification time of the file it found.                                 *)
(***************************************************************************)
C5_TtlZeroForcesRefresh ==
    \A p \in Procs :
        (cache_ttl[p] = 0 /\ pc[p] = "exit") =>
            /\ CountOf(log[p], "retrieve") = 1
            /\ CountOf(log[p], "write") = 1

(***************************************************************************)
(* C6.  Login once: an instance submits the login form at most once; it    *)
(* has submitted it, and is logged in, whenever it opens an export page;   *)
(* once it is logged in, it is never again at a step of _login and no      *)
(* login request is added to its log.                                      *)
(***************************************************************************)
LoginSteps == {"login_open", "login_submit"}

C6_LoginOnce ==
    /\ [](\A p \in Procs :
            /\ nlogin[p] <= 1
            /\ logged_in[p] => (nlogin[p] = 1 /\ pc[p] \notin LoginSteps)
            /\ (pc[p] = "export_open" \/ CountOf(log[p], "export_open") > 0)
                  => (logged_in[p] /\ nlogin[p] = 1))
    /\ [][\A p \in Procs :
            logged_in[p] =>
                /\ nlogin'[p] = nlogin[p]
                /\ \A i \in (Len(log[p]) + 1)..Len(log'[p]) :
                      log'[p][i] \notin LoginSteps]_vars

\* A later download of an instance that logged in for an earlier one.
C6_Witness ==
    \E p \in Procs :
        /\ pc[p] = "exit"
        /\ nlogin[p] = 1
        /\ CountOf(log[p], "export_open") = 1
        /\ CountOf(log[p], "login_open") = 0
        /\ CountOf(log[p], "login_submit") = 0

(***************************************************************************)
(* C7.  No retry: once a request of a getter has failed, the failed        *)
(* request is the last thing but the exception in the log of the call, the *)
(* getter has raised, the lock is released, the memo of the resource is    *)
(* unset, and the instance is logged in exactly when the call did not have *)
(* to log in or its login form submit completed; a process that raised     *)
(* does nothing more.                                                      *)
(***************************************************************************)
LoginCompleted(l) ==
    \E i \in 1..(Len(l) - 1) : l[i] = "login_submit" /\ l[i + 1] # "raise"

C7_NoRetry ==
    /\ [](\A p \in Procs :
            /\ pc[p] = "raised" <=> CountOf(log[p], "raise") > 0
            /\ CountOf(log[p], "raise") > 0 =>
                /\ CountOf(log[p], "raise") = 1
                /\ log[p][Len(log[p])] = "raise"
                /\ log[p][Len(log[p]) - 1] \in Requests
                /\ ~memo[p][res[p]].set
                /\ lock # p
                /\ logged_in[p] <=>
                     (CountOf(log[p], "login_open") = 0 \/ LoginCompleted(log[p])))
    /\ [][\A p \in Procs :
            pc[p] = "raised" =>
                /\ pc'[p] = "raised"
                /\ log'[p] = log[p]
                /\ memo'[p] = memo[p]
                /\ logged_in'[p] = logged_in[p]]_vars

\* The second poll request of an export fails, after a login that completed.
C7_Witness ==
    \E p \in Procs :
        /\ pc[p] = "raised"
        /\ log[p] = << "lock", "stat", "login_open", "login_submit", "export_open",
                       "poll", "poll", "raise" >>
        /\ logged_in[p]
        /\ lock # p

(***************************************************************************)
(* C8.  Per-resource cache files: the outcome of the expiry check of a     *)
(* getter is decided by its own cache file; a cache file changes only in a *)
(* step of the download of its own resource, which leaves it present with  *)
(* the current time as its modification time; the temporary file changes   *)
(* only in the download of the product options.                            *)
(***************************************************************************)
C8_Independence ==
    /\ [][\A p \in Procs :
            ChecksCache(p) => (pc'[p] = "read" <=> WithinTtl(p))]_vars
    /\ [][\A r \in Resources :
            files'[CacheFile(r)] # files[CacheFile(r)] =>
                /\ \E p \in Procs :
                     lock = p /\ res[p] = r /\ pc[p] \in {"retrieve", "repair"}
                /\ files'[CacheFile(r)].exists
                /\ files'[CacheFile(r)].mtime = now]_vars
    /\ [][files'[TmpFile("product_options")] # files[TmpFile("product_options")] =>
            \E p \in Procs :
                lock = p /\ res[p] = "product_options" /\ pc[p] = "retrieve"]_vars

\* Two cache files, each with the time of its own download.
C8_Witness ==
    /\ files["products.csv"].exists
    /\ files["categories.csv"].exists
    /\ files["products.csv"].mtime # files["categories.csv"].mtime

(***************************************************************************)
(* C9.  Products are cleaned: with clean set, every one of the 20 boolean  *)
(* columns of every product row of the memo holds "Y" or "N"; at the end   *)
(* of the with block it holds the value of the cache file when that is "Y" *)
(* or "N", and "N" otherwise.                                              *)
(***************************************************************************)
C9_ProductBooleans ==
    /\ Cardinality(Range(ProductBooleans)) = 20
    /\ \A p \in Procs :
        (memo[p]["products"].set /\ clean[p]) =>
            \A i \in 1..Len(memo[p]["products"].rows) :
                \A b \in Range(ProductBooleans) :
                    memo[p]["products"].rows[i][b] \in YN
    /\ \A p \in Procs :
        (pc[p] = "exit" /\ res[p] = "products" /\ clean[p]) =>
            \A i \in 1..Len(OwnFile(p).data.rows) :
                \A k \in 1..Len(OwnFile(p).data.header) :
                    OwnFile(p).data.header[k] \in Range(ProductBooleans) =>
                        ReturnedField(p, i, k) =
                            (IF OwnFile(p).data.rows[i][k] \in YN
                             THEN OwnFile(p).data.rows[i][k] ELSE "N")

\* get_products() has read a file with an empty and with another odd value
\* in boolean columns, and "Y" and "N" in others.
C9_Witness ==
    \E p \in Procs :
        /\ pc[p] = "exit" /\ res[p] = "products" /\ clean[p]
        /\ \A v \in Range(CsvValues) :
             \E i \in 1..Len(OwnFile(p).data.rows) :
                \E k \in 1..Len(OwnFile(p).data.header) :
                    /\ OwnFile(p).data.header[k] \in Range(ProductBooleans)
                    /\ OwnFile(p).data.rows[i][k] = v
                    /\ ReturnedField(p, i, k) = (IF v \in YN THEN v ELSE "N")

(***************************************************************************)
(* C10.  Categories are cleaned: with clean set, the column "Hide This     *)
(* Category From Customers" of every category row of the memo holds "Y" or *)
(* "N", and the row has the columns of the cache file and no other.        *)
(***************************************************************************)
C10_CategoryBooleans ==
    \A p \in Procs :
        (memo[p]["categories"].set /\ clean[p]) =>
            \A i \in 1..Len(memo[p]["categories"].rows) :
                /\ memo[p]["categories"].rows[i][HideCategory] \in YN
                /\ DOMAIN memo[p]["categories"].rows[i] = Range(CategoriesHeader)

MaxFields == 4         \* fields of a header line
MaxApplications == 2   \* uniquify_header applied to a line and to its result

FieldNames == {"A", "B", " A", "A [1]", "A [2]"}

RECURSIVE SeqsUpTo(_, _)
SeqsUpTo(S, n) ==
    IF n = 0 THEN {<<>>}
    ELSE LET shorter == SeqsUpTo(S, n - 1)
         IN  shorter \cup {Append(q, x) : q \in {t \in shorter : Len(t) = n - 1}, x \in S}

\* split(",") gives at least one field.
HeaderLines == SeqsUpTo(FieldNames, MaxFields) \ {<<>>}

BrowserIdle ==
    /\ now = 0
    /\ files = [f \in FileNames |-> NoFile]
    /\ lock = NoProc
    /\ ncalls = 0
    /\ pc = [p \in Procs |-> "idle"]
    /\ res = [p \in Procs |-> "products"]
    /\ log = [p \in Procs |-> <<>>]
    /\ logged_in = [p \in Procs |-> FALSE]
    /\ memo = [p \in Procs |-> [r \in Resources |-> NoMemo]]
    /\ cache_ttl = [p \in Procs |-> CacheTtl]
    /\ clean = [p \in Procs |-> TRUE]
    /\ current = [p \in Procs |-> 0]
    /\ response_object = [p \in Procs |-> NoResponse]
    /\ nlogin = [p \in Procs |-> 0]

browser == << now, files, lock, ncalls, pc, res, log, logged_in, memo,
              cache_ttl, clean, current, response_object, nlogin >>

HeaderInit ==
    /\ BrowserIdle
    /\ VariantsIdle
    /\ KeysIdle
    /\ SortIdle
    /\ PriceIdle
    /\ line \in HeaderLines
    /\ fixed = <<>>

CallUniquifyHeader ==
    /\ Len(fixed) < MaxApplications
    /\ fixed' = Append(fixed, uniquify_header(IF fixed = <<>> THEN line
                                              ELSE fixed[Len(fixed)]))
    /\ UNCHANGED << line, browser, variantsv, keysv, sortv, pricev >>

HeaderNext == CallUniquifyHeader

SpecHeader == HeaderInit /\ [][HeaderNext]_vars

(***************************************************************************)
(* Vocabulary of the properties of uniquify_header.                        *)
(***************************************************************************)
\* How often the name of column i occurs in the header, and the how-manieth
\* occurrence column i is.
Occurs(h, i) == Cardinality({j \in 1..Len(h) : h[j] = h[i]})
Rank(h, i) == Cardinality({j \in 1..i : h[j] = h[i]})

\* The line neither starts nor ends with white space.
NoOuterSpace(h) ==
    /\ Len(h[1]) > 0 => SubSeq(h[1], 1, 1) # " "
    /\ Len(h[Len(h)]) > 0 => SubSeq(h[Len(h)], Len(h[Len(h)]), Len(h[Len(h)])) # " "

\* No field of the header is a repeated name with one of its suffixes.
NoClash(h) ==
    \A i, j \in 1..Len(h) :
        Occurs(h, i) >= 2 =>
            \A c \in 1..Occurs(h, i) : h[j] # h[i] \o " [" \o ToString(c) \o "]"

(***************************************************************************)
(* C12 as stated: the first occurrence of a repeated name keeps its name,  *)
(* the i-th occurrence (i >= 2) becomes "name [i]", and a name that occurs *)
(* once is unchanged.                                                      *)
(***************************************************************************)
C12_FirstKeepsName ==
    (fixed # <<>> /\ NoOuterSpace(line) /\ NoClash(line)) =>
        /\ Len(fixed[1]) = Len(line)
        /\ \A i \in 1..Len(line) :
              fixed[1][i] =
                 (IF Occurs(line, i) >= 2 /\ Rank(line, i) >= 2
                  THEN line[i] \o " [" \o ToString(Rank(line, i)) \o "]"
                  ELSE line[i])

(***************************************************************************)
(* C12 as amended: in a header with no white space at its ends and with no *)
(* field that is a repeated name with one of its suffixes, every           *)
(* occurrence of a repeated name is renamed, the i-th (the first included) *)
(* to "name [i]", and a name that occurs once is unchanged.                *)
(***************************************************************************)
C12_Suffixing ==
    (fixed # <<>> /\ NoOuterSpace(line) /\ NoClash(line)) =>
        /\ Len(fixed[1]) = Len(line)
        /\ \A i \in 1..Len(line) :
              fixed[1][i] =
                 (IF Occurs(line, i) >= 2
                  THEN line[i] \o " [" \o ToString(Rank(line, i)) \o "]"
                  ELSE line[i])

\* "A,B,A,A" has become "A [1],B,A [2],A [3]".
C12_Witness ==
    /\ line = <<"A", "B", "A", "A">>
    /\ NoOuterSpace(line) /\ NoClash(line)
    /\ Len(fixed) >= 1
    /\ fixed[1] = <<"A [1]", "B", "A [2]", "A [3]">>

(***************************************************************************)
(* C13.  uniquify_header is idempotent: given what it returned, it returns *)
(* the same again.                                                         *)
(***************************************************************************)
C13_Idempotent ==
    Len(fixed) = 2 => fixed[2] = fixed[1]

(***************************************************************************)
(* get_variants: the variants of the products, made from the rows of the   *)
(* personalizations and of the product options.                            *)
(***************************************************************************)
\* personalization_keys, as (personalization key, variant key) pairs.
personalization_keys ==
    << <<"Product SKU", "Product SKU">>,
       <<"Product Name", "Product Name">>,
       <<"Size", "Variant Size">>,
       <<"Price", "Variant Add Price">>,
       <<"SKU", "Variant SKU">>,
       <<"Main Photo", "Variant Main Photo (Image)">>,
       <<"Main Photo Alt / Title Tag", "Variant Main Photo (Alt / Title Tag)">>,
       <<"Main Photo Caption", "Variant Main Photo (Caption)">>,
       <<"Main Photo Image URL Link", "Variant Main Photo URL">>,
       <<"Main Photo Height", "Variant Main Photo URL Height">>,
       <<"Main Photo Width", "Variant Main Photo URL Width">>,
       <<"Large Photo", "Variant Large Pop-Up Photo (Image)">>,
       <<"Large Photo Alt / Title Tag", "Variant Large Pop-Up Photo (Alt / Title Tag)">>,
       <<"Large Photo Image URL Link", "Variant Large Popup Photo URL">>,
       <<"Large Photo Height", "Variant Large Popup Photo URL Height">>,
       <<"Large Photo Width", "Variant Large Popup Photo URL Width">>,
       <<"Default", "Variant Default">>,
       <<"Inventory Level", "Variant Inventory Level">>,
       <<"Low Inventory Notify Level", "Variant Notify Level">>,
       <<"Weight", "Variant Weight">>,
       <<"Cost", "Variant Add Cost">> >>

product_option_keys ==
    << "Product SKU",
       "Product Name",
       "Option Set SKU",
       "Option Set Price",
       "Option Set Weight",
       "Option Set Cost",
       "Option Set MSRP",
       "Option Set Main Photo (Image)",
       "Option Set Main Photo (Caption)",
       "Option Set Main Photo (Alt / Title Tag)",
       "Option Set Main Photo URL",
       "Option Set Main Photo URL Width",
       "Option Set Main Photo URL Height",
       "Option Set Large Pop-Up Photo (Image)",
       "Option Set Large Pop-Up Photo (Alt / Title Tag)",
       "Option Set Large Popup Photo URL",
       "Option Set Large Popup Photo URL Width",
       "Option Set Large Popup Photo URL Height",
       "Option Set Inventory Level",
       "Option Set Notify Level" >>

question_copy_keys ==
    << "Answer Input Type",
       "Exclude from best seller report",
       "In Line Help",
       "Product Name",
       "Product SKU",
       "Question Enabled",
       "Question Sort Order",
       "Required",
       "Track Inventory" >>

\* str.replace, str.split and str.join.
RECURSIVE replace(_, _, _)
replace(s, old, new) ==
    IF Len(s) < Len(old) THEN s
    ELSE IF SubSeq(s, 1, Len(old)) = old
         THEN new \o replace(SubSeq(s, Len(old) + 1, Len(s)), old, new)
         ELSE SubSeq(s, 1, 1) \o replace(SubSeq(s, 2, Len(s)), old, new)

Least(S) == CHOOSE i \in S : \A j \in S : i <= j

RECURSIVE split(_, _)
split(s, sep) ==
    LET at == {i \in 1..Len(s) : SubSeq(s, i, i) = sep}
    IN  IF at = {} THEN <<s>>
        ELSE <<SubSeq(s, 1, Least(at) - 1)>>
                 \o split(SubSeq(s, Least(at) + 1, Len(s)), sep)

RECURSIVE join(_, _)
join(sep, parts) ==
    IF Len(parts) = 0 THEN ""
    ELSE IF Len(parts) = 1 THEN parts[1]
    ELSE parts[1] \o sep \o join(sep, Tail(parts))

\* key.replace("Option Set", "Variant").replace("Cost", "Add Cost")
\*    .replace("Price", "Add Price")
VariantKey(key) ==
    replace(replace(replace(key, "Option Set", "Variant"), "Cost", "Add Cost"),
            "Price", "Add Price")

\* The variant keys of product_option_keys, in its order.
VariantKeys == [i \in 1..Len(product_option_keys) |-> VariantKey(product_option_keys[i])]

\* (group, name) = question_answer.split("|") needs exactly two parts.
Unpacks(personalization) == Len(split(personalization["Question|Answer"], "|")) = 2

\* The variant of a personalization whose "Question|Answer" has been split.
VariantOf(personalization, question_answer) ==
    LET copied == {personalization_keys[i][2] : i \in 1..Len(personalization_keys)}
        source(v_key) ==
            personalization_keys[
                CHOOSE i \in 1..Len(personalization_keys) :
                    personalization_keys[i][2] = v_key][1]
    IN  [k \in copied \cup {"Variant Type", "Variant Group", "Variant Name",
                            "Variant Sort", "Variant Enabled"} |->
            CASE k = "Variant Type" -> "Personalization"
              [] k = "Variant Group" -> question_answer[1]
              [] k = "Variant Name" -> question_answer[2]
              [] k = "Variant Sort" -> personalization["Answer Sort Order"]
              [] k = "Variant Enabled" ->
                   (IF personalization["Answer Enabled"] = "Y" THEN "Y" ELSE "N")
              [] OTHER -> personalization[source(k)]]

\* Mutant: the two parts are unpacked the other way round.
PersonalizationVariantSwapped(personalization) ==
    VariantOf(personalization,
              << split(personalization["Question|Answer"], "|")[2],
                 split(personalization["Question|Answer"], "|")[1] >>)

PersonalizationVariant(personalization) ==
    VariantOf(personalization, split(personalization["Question|Answer"], "|"))

\* for idx in range(1, 10), left at the first index whose group name key is
\* not in the row.
OptionIdxStop == 10

\* Mutant: an index whose group name key is missing is skipped and the scan
\* goes on.
RECURSIVE OptionIdxsSkipping(_, _)
OptionIdxsSkipping(product_option, idx) ==
    IF idx >= OptionIdxStop THEN <<>>
    ELSE IF Suffixed("Option Group Name", idx) \notin DOMAIN product_option
         THEN OptionIdxsSkipping(product_option, idx + 1)
         ELSE <<idx>> \o OptionIdxsSkipping(product_option, idx + 1)

RECURSIVE OptionIdxs(_, _)
OptionIdxs(product_option, idx) ==
    IF idx >= OptionIdxStop
          \/ Suffixed("Option Group Name", idx) \notin DOMAIN product_option
    THEN <<>>
    ELSE <<idx>> \o OptionIdxs(product_option, idx + 1)

OptionVariant(product_option) ==
    LET copied == Range(VariantKeys)
        source(v_key) ==
            product_option_keys[
                CHOOSE i \in 1..Len(product_option_keys) : VariantKeys[i] = v_key]
        idxs == OptionIdxs(product_option, 1)
        values(name) ==
            [n \in 1..Len(idxs) |-> product_option[Suffixed(name, idxs[n])]]
    IN  [k \in copied \cup {"Variant Type", "Variant Group", "Variant Name",
                            "Variant Sort", "Variant Enabled"} |->
            CASE k = "Variant Type" -> "Option"
              [] k = "Variant Group" -> join(":", values("Option Group Name"))
              [] k = "Variant Name" -> join(":", values("Option Name"))
              [] k = "Variant Sort" -> join(":", values("Option Sort"))
              [] k = "Variant Enabled" -> "Y"
              [] OTHER -> product_option[source(k)]]

\* Mutant: a row belongs to a product when its Product SKU is the SKU of the
\* product, whatever its Product Name.
MatchesSku(row, product) == row["Product SKU"] = product["SKU"]

Matches(row, product) ==
    /\ row["Product Name"] = product["Product Name"]
    /\ row["Product SKU"] = product["SKU"]

Relevant(rows, product) == SelectSeq(rows, LAMBDA row : Matches(row, product))

\* What the loops go through, in their order: for each product its relevant
\* personalizations, then its relevant product options.
RECURSIVE Items(_, _)
Items(t, i) ==
    IF i > Len(t.products) THEN <<>>
    ELSE LET relevant_personalizations == Relevant(t.personalizations, t.products[i])
             relevant_product_options == Relevant(t.product_options, t.products[i])
         IN  [n \in 1..Len(relevant_personalizations) |->
                 [type |-> "Personalization", row |-> relevant_personalizations[n]]]
             \o [n \in 1..Len(relevant_product_options) |->
                 [type |-> "Option", row |-> relevant_product_options[n]]]
             \o Items(t, i + 1)

\* self._variants when get_variants() is left: by the return, or by the
\* ValueError of a "Question|Answer" that does not unpack, with the variants
\* appended until then.
Variants(t) ==
    LET items == Items(t, 1)
        bad == {i \in 1..Len(items) :
                   items[i].type = "Personalization" /\ ~Unpacks(items[i].row)}
        n == IF bad = {} THEN Len(items) ELSE Least(bad) - 1
    IN  [set |-> TRUE,
         rows |-> [i \in 1..n |->
                     IF items[i].type = "Personalization"
                     THEN PersonalizationVariant(items[i].row)
                     ELSE OptionVariant(items[i].row)],
         raised |-> bad # {}]

(***************************************************************************)
(* get_variants() on its own, given the rows the three getters return.     *)
(***************************************************************************)
MaxProducts == 2           \* rows of get_products()
MaxPersonalizations == 2   \* rows of get_personalizations()
MaxProductOptions == 2     \* rows of get_product_options()

ProductRow(name, sku, category) ==
    [k \in {"Product Name", "SKU", "Category"} |->
        CASE k = "Product Name" -> name
          [] k = "SKU" -> sku
          [] k = "Category" -> category]

PersonalizationColumns ==
    {personalization_keys[i][1] : i \in 1..Len(personalization_keys)}
        \cup {"Product Id", "Question ID|Answer ID", "Question|Answer",
              "Answer Sort Order", "Answer Enabled"}
        \cup Range(question_copy_keys)

PersonalizationRow(name, sku, id, ids, question_answer, sort, enabled) ==
    [k \in PersonalizationColumns |->
        CASE k = "Product Name" -> name
          [] k = "Product SKU" -> sku
          [] k = "Product Id" -> id
          [] k = "Question ID|Answer ID" -> ids
          [] k = "Question|Answer" -> question_answer
          [] k = "Answer Sort Order" -> sort
          [] k = "Answer Enabled" -> enabled
          [] OTHER -> ""]

\* A product option row with the option groups of the indexes of groups.
OptionRow(name, sku, groups) ==
    LET index(k) == CHOOSE i \in DOMAIN groups :
                        k \in {Suffixed("Option Group Name", i),
                               Suffixed("Option Name", i),
                               Suffixed("Option Sort", i)}
    IN  [k \in Range(product_option_keys)
               \cup {Suffixed("Option Group Name", i) : i \in DOMAIN groups}
               \cup {Suffixed("Option Name", i) : i \in DOMAIN groups}
               \cup {Suffixed("Option Sort", i) : i \in DOMAIN groups} |->
            CASE k = "Product Name" -> name
              [] k = "Product SKU" -> sku
              [] k \in Range(product_option_keys) -> ""
              [] k = Suffixed("Option Group Name", index(k)) -> groups[index(k)][1]
              [] k = Suffixed("Option Name", index(k)) -> groups[index(k)][2]
              [] OTHER -> groups[index(k)][3]]

Groups(idxs) ==
    [i \in idxs |-> <<"Group" \o ToString(i), "Option" \o ToString(i), ToString(10 * i)>>]

SampleProducts ==
    { ProductRow("Tote", "1001", "Bags"),
      ProductRow("Cap", "1002", "Hats"),
      ProductRow("Tote", "1003", "Gifts") }

\* The third row belongs to no product; the last one has no "|".
SamplePersonalizations ==
    { PersonalizationRow("Tote", "1001", "7", "3|1", "Size|Small", "1", "Y"),
      PersonalizationRow("Tote", "1001", "7", "3|2", "Size|Large", "2", "N"),
      PersonalizationRow("Cap", "1003", "10", "5|1", "Color|Red", "1", "Y"),
      PersonalizationRow("Tote", "1003", "9", "3|1", "Size|Small", "1", ""),
      PersonalizationRow("Tote", "1001", "7", "4|1", "Engraving", "1", "Y") }

\* Two groups; three groups with index 3 missing; ten groups; a row of no
\* product.
SampleProductOptions ==
    { OptionRow("Cap", "1002", (1 :> <<"Size", "Small", "1">>) @@ (2 :> <<"Color", "Red", "2">>)),
      OptionRow("Tote", "1001", Groups({1, 2, 4})),
      OptionRow("Cap", "1002", Groups(1..10)),
      OptionRow("Mug", "1009", Groups({1})) }

VariantsInit ==
    /\ BrowserIdle
    /\ HeaderIdle
    /\ KeysIdle
    /\ SortIdle
    /\ PriceIdle
    /\ tables \in [products : SeqsUpTo(SampleProducts, MaxProducts),
                   personalizations : SeqsUpTo(SamplePersonalizations, MaxPersonalizations),
                   product_options : SeqsUpTo(SampleProductOptions, MaxProductOptions)]
    /\ variants = NoVariants
    /\ questions = NoQuestions

\* if self._variants is None: ...
CallGetVariants ==
    /\ ~variants.set
    /\ variants' = Variants(tables)
    /\ UNCHANGED << tables, questions, browser, headerv, keysv, sortv, pricev >>

VariantsNext == CallGetVariants

SpecVariants == VariantsInit /\ [][VariantsNext]_vars

(***************************************************************************)
(* Vocabulary of the properties of get_variants.                           *)
(***************************************************************************)
\* get_variants() has returned.
VariantsReturned == variants.set /\ ~variants.raised

\* The rows of a table with the Product Name and the SKU of a product, and
\* the variants of a type with them.
RowsOf(rows, product) ==
    {n \in 1..Len(rows) :
        /\ rows[n]["Product Name"] = product["Product Name"]
        /\ rows[n]["Product SKU"] = product["SKU"]}

VariantsOf(type, product) ==
    {n \in 1..Len(variants.rows) :
        /\ variants.rows[n]["Variant Type"] = type
        /\ variants.rows[n]["Product Name"] = product["Product Name"]
        /\ variants.rows[n]["Product SKU"] = product["SKU"]}

\* The products of the list that have the name and the SKU of a product.
Twins(product) ==
    {j \in 1..Len(tables.products) :
        /\ tables.products[j]["Product Name"] = product["Product Name"]
        /\ tables.products[j]["SKU"] = product["SKU"]}

RECURSIVE RowsOfProducts(_)
RowsOfProducts(i) ==
    IF i = 0 THEN 0
    ELSE Cardinality(RowsOf(tables.personalizations, tables.products[i]))
         + Cardinality(RowsOf(tables.product_options, tables.products[i]))
         + RowsOfProducts(i - 1)

(***************************************************************************)
(* C14.  Variant count: in what get_variants() returns, a product has one  *)
(* variant of type "Personalization" for each personalization row with its *)
(* Product Name and SKU, and one of type "Option" for each product option  *)
(* row with them (a product that is in the list twice has them twice);     *)
(* there is no other variant, so a product without such rows has none and  *)
(* a row of no product gives none.                                         *)
(***************************************************************************)
C14_VariantCount ==
    VariantsReturned =>
        /\ \A i \in 1..Len(tables.products) :
             LET product == tables.products[i]
             IN  /\ Cardinality(VariantsOf("Personalization", product)) =
                      Cardinality(Twins(product))
                         * Cardinality(RowsOf(tables.personalizations, product))
                 /\ Cardinality(VariantsOf("Option", product)) =
                      Cardinality(Twins(product))
                         * Cardinality(RowsOf(tables.product_options, product))
        /\ Len(variants.rows) = RowsOfProducts(Len(tables.products))
        /\ \A n \in 1..Len(variants.rows) :
             /\ variants.rows[n]["Variant Type"] \in {"Personalization", "Option"}
             /\ \E i \in 1..Len(tables.products) :
                   n \in VariantsOf(variants.rows[n]["Variant Type"], tables.products[i])

\* One product has variants of both types, another has no variant, and a
\* personalization row belongs to no product.
C14_Witness ==
    /\ VariantsReturned
    /\ \E i \in 1..Len(tables.products) :
          /\ VariantsOf("Personalization", tables.products[i]) # {}
          /\ VariantsOf("Option", tables.products[i]) # {}
    /\ \E i \in 1..Len(tables.products) :
          /\ RowsOf(tables.personalizations, tables.products[i]) = {}
          /\ RowsOf(tables.product_options, tables.products[i]) = {}
          /\ VariantsOf("Personalization", tables.products[i]) = {}
          /\ VariantsOf("Option", tables.products[i]) = {}
    /\ \E n \in 1..Len(tables.personalizations) :
          \A i \in 1..Len(tables.products) :
              n \notin RowsOf(tables.personalizations, tables.products[i])

\* The personalization rows the variants are made of, in the order of
\* get_variants: product by product, and in the order of the list.
RECURSIVE SourceRows(_, _)
SourceRows(rows, i) ==
    IF i > Len(tables.products) THEN <<>>
    ELSE SelectSeq(rows,
                   LAMBDA row :
                       /\ row["Product Name"] = tables.products[i]["Product Name"]
                       /\ row["Product SKU"] = tables.products[i]["SKU"])
         \o SourceRows(rows, i + 1)

VariantsOfType(type) ==
    SelectSeq(variants.rows, LAMBDA variant : variant["Variant Type"] = type)

HasNoBar(s) == \A i \in 1..Len(s) : SubSeq(s, i, i) # "|"

(***************************************************************************)
(* C15.  Personalization variants: in what get_variants() returns, the     *)
(* variants of type "Personalization" are those of the personalization     *)
(* rows of the products, one for one; Variant Group and Variant Name are   *)
(* the two parts of the "Question|Answer" of the row around its "|", and   *)
(* Variant Sort is its Answer Sort Order.  A product whose two rows have   *)
(* different answers has two variants with different Variant Name.         *)
(***************************************************************************)
C15_PersonalizationVariants ==
    VariantsReturned =>
        LET made == VariantsOfType("Personalization")
            source == SourceRows(tables.personalizations, 1)
        IN  /\ Len(made) = Len(source)
            /\ \A n \in 1..Len(made) :
                 /\ made[n]["Variant Group"] \o "|" \o made[n]["Variant Name"]
                       = source[n]["Question|Answer"]
                 /\ HasNoBar(made[n]["Variant Group"])
                 /\ HasNoBar(made[n]["Variant Name"])
                 /\ made[n]["Variant Sort"] = source[n]["Answer Sort Order"]
            /\ \A i \in 1..Len(tables.products) :
                 LET rows == RowsOf(tables.personalizations, tables.products[i])
                 IN  (/\ Cardinality(Twins(tables.products[i])) = 1
                      /\ Cardinality(rows) = 2
                      /\ \A a, b \in rows :
                            a # b => tables.personalizations[a]["Question|Answer"]
                                       # tables.personalizations[b]["Question|Answer"])
                     => /\ Cardinality(VariantsOf("Personalization", tables.products[i])) = 2
                        /\ \A a, b \in VariantsOf("Personalization", tables.products[i]) :
                              a # b => variants.rows[a]["Variant Name"]
                                         # variants.rows[b]["Variant Name"]

\* The product with the answers "Small" and "Large" has its two variants.
C15_Witness ==
    /\ VariantsReturned
    /\ Len(tables.products) = 1
    /\ Len(VariantsOfType("Personalization")) = 2
    /\ VariantsOfType("Personalization")[1]["Variant Group"] = "Size"
    /\ {VariantsOfType("Personalization")[n]["Variant Name"] : n \in 1..2}
          = {"Small", "Large"}
    /\ {VariantsOfType("Personalization")[n]["Variant Sort"] : n \in 1..2}
          = {"1", "2"}

\* The number of option groups of a product option row: the largest n up
\* to 9 with the group name keys of 1..n all in the row.
GroupCount(row) ==
    CHOOSE n \in 0..9 :
        /\ \A i \in 1..n : ("Option Group Name [" \o ToString(i) \o "]") \in DOMAIN row
        /\ n < 9 => ("Option Group Name [" \o ToString(n + 1) \o "]") \notin DOMAIN row

\* The components of a joined value.
Components(s) == IF s = "" THEN <<>> ELSE split(s, ":")

(***************************************************************************)
(* C16.  Option variants: in what get_variants() returns, the variants of  *)
(* type "Option" are those of the product option rows of the products,    *)
(* one for one; with n the number of option groups of the row, Variant     *)
(* Group, Variant Name and Variant Sort have n components each, joined by  *)
(* ":", the i-th being the row's "Option Group Name [i]", "Option Name     *)
(* [i]" and "Option Sort [i]".                                             *)
(***************************************************************************)
C16_OptionVariants ==
    VariantsReturned =>
        LET made == VariantsOfType("Option")
            source == SourceRows(tables.product_options, 1)
        IN  /\ Len(made) = Len(source)
            /\ \A n \in 1..Len(made) :
                 /\ Components(made[n]["Variant Group"]) =
                      [i \in 1..GroupCount(source[n]) |->
                          source[n]["Option Group Name [" \o ToString(i) \o "]"]]
                 /\ Components(made[n]["Variant Name"]) =
                      [i \in 1..GroupCount(source[n]) |->
                          source[n]["Option Name [" \o ToString(i) \o "]"]]
                 /\ Components(made[n]["Variant Sort"]) =
                      [i \in 1..GroupCount(source[n]) |->
                          source[n]["Option Sort [" \o ToString(i) \o "]"]]

\* A row with the groups 1, 2 and 4 has given a variant of two components,
\* and a row with ten groups one of nine.
C16_Witness ==
    /\ VariantsReturned
    /\ \E n \in 1..Len(VariantsOfType("Option")) :
          /\ "Option Group Name [4]" \in DOMAIN SourceRows(tables.product_options, 1)[n]
          /\ "Option Group Name [3]" \notin DOMAIN SourceRows(tables.product_options, 1)[n]
          /\ VariantsOfType("Option")[n]["Variant Group"] = "Group1:Group2"
          /\ VariantsOfType("Option")[n]["Variant Sort"] = "10:20"
    /\ \E n \in 1..Len(VariantsOfType("Option")) :
          /\ "Option Group Name [10]" \in DOMAIN SourceRows(tables.product_options, 1)[n]
          /\ Len(Components(VariantsOfType("Option")[n]["Variant Name"])) = 9

(***************************************************************************)
(* get_questions: the questions of the products, made from the rows of the *)
(* personalizations sorted by product and question.                        *)
(***************************************************************************)
\* The characters of the data, in the order of their codes; strings compare
\* as Python compares them, character by character.
Ascii == " -0123456789:ABCDEFGHIJKLMNOPQRSTUVWXYZ[]abcdefghijklmnopqrstuvwxyz|"
Ord(c) == CHOOSE i \in 1..Len(Ascii) : SubSeq(Ascii, i, i) = c

RECURSIVE StrLess(_, _)
StrLess(a, b) ==
    IF Len(b) = 0 THEN FALSE
    ELSE IF Len(a) = 0 THEN TRUE
    ELSE IF SubSeq(a, 1, 1) # SubSeq(b, 1, 1)
         THEN Ord(SubSeq(a, 1, 1)) < Ord(SubSeq(b, 1, 1))
         ELSE StrLess(SubSeq(a, 2, Len(a)), SubSeq(b, 2, Len(b)))

\* The sort key: (Product Id, question id).
QuestionKey(personalization) ==
    << personalization["Product Id"],
       split(personalization["Question ID|Answer ID"], "|")[1] >>

KeyLess(k1, k2) ==
    \/ StrLess(k1[1], k2[1])
    \/ k1[1] = k2[1] /\ StrLess(k1[2], k2[2])

\* sorted() is stable: a row goes after the rows whose key is not greater.
InsertSorted(rows, row) ==
    LET before == {i \in 1..Len(rows) : ~KeyLess(QuestionKey(row), QuestionKey(rows[i]))}
        n == IF before = {} THEN 0
             ELSE CHOOSE i \in before : \A j \in before : j <= i
    IN  SubSeq(rows, 1, n) \o <<row>> \o SubSeq(rows, n + 1, Len(rows))

\* Mutant: the personalizations are taken in the order of the list.
Unsorted(rows) == rows

RECURSIVE sorted(_)
sorted(rows) ==
    IF Len(rows) = 0 THEN <<>>
    ELSE InsertSorted(sorted(SubSeq(rows, 1, Len(rows) - 1)), rows[Len(rows)])

Question(personalization) ==
    [k \in {"Product Id", "Question ID", "Question", "_n_answers"}
           \cup Range(question_copy_keys) |->
        CASE k = "Product Id" -> personalization["Product Id"]
          [] k = "Question ID" -> QuestionKey(personalization)[2]
          [] k = "Question" -> split(personalization["Question|Answer"], "|")[1]
          [] k = "_n_answers" -> 1
          [] OTHER -> personalization[k]]

\* The loop over the sorted personalizations, from row i on.
RECURSIVE QuestionsFrom(_, _, _)
QuestionsFrom(rows, i, qs) ==
    IF i > Len(rows) THEN qs
    ELSE LET is_first_answer ==
                 \/ i = 1
                 \/ QuestionKey(rows[i]) # QuestionKey(rows[i - 1])
         IN  IF is_first_answer
             THEN QuestionsFrom(rows, i + 1, Append(qs, Question(rows[i])))
             ELSE QuestionsFrom(rows, i + 1,
                                [qs EXCEPT ![Len(qs)]["_n_answers"] = @ + 1])

Questions(personalizations) == QuestionsFrom(sorted(personalizations), 1, <<>>)

(***************************************************************************)
(* get_questions() on its own, given the rows get_personalizations()       *)
(* returns.                                                                *)
(***************************************************************************)
MaxAnswers == 3   \* rows of get_personalizations()

QuestionsInit ==
    /\ BrowserIdle
    /\ HeaderIdle
    /\ KeysIdle
    /\ SortIdle
    /\ PriceIdle
    /\ tables \in [products : {<<>>},
                   personalizations : SeqsUpTo(SamplePersonalizations, MaxAnswers),
                   product_options : {<<>>}]
    /\ variants = NoVariants
    /\ questions = NoQuestions

\* if self._questions is None: ...
CallGetQuestions ==
    /\ ~questions.set
    /\ questions' = [set |-> TRUE, rows |-> Questions(tables.personalizations)]
    /\ UNCHANGED << tables, variants, browser, headerv, keysv, sortv, pricev >>

QuestionsNext == CallGetQuestions

SpecQuestions == QuestionsInit /\ [][QuestionsNext]_vars

\* The (Product Id, question id) pairs of the personalization rows, and the
\* rows of a pair.
Pair(row) ==
    << row["Product Id"],
       SubSeq(row["Question ID|Answer ID"], 1,
              Least({i \in 1..(Len(row["Question ID|Answer ID"]) + 1) :
                        i = Len(row["Question ID|Answer ID"]) + 1
                           \/ SubSeq(row["Question ID|Answer ID"], i, i) = "|"}) - 1) >>

Pairs == {Pair(tables.personalizations[n]) : n \in 1..Len(tables.personalizations)}

Answers(pair) ==
    {n \in 1..Len(tables.personalizations) : Pair(tables.personalizations[n]) = pair}

RECURSIVE SumAnswers(_)
SumAnswers(i) ==
    IF i = 0 THEN 0 ELSE questions.rows[i]["_n_answers"] + SumAnswers(i - 1)

(***************************************************************************)
(* C17.  Questions: get_questions() returns one row for each (Product Id,  *)
(* Question ID) pair of the personalization rows and no other, whatever    *)
(* the order of the rows; the _n_answers of a question is the number of    *)
(* personalization rows of its pair, and the _n_answers add up to the      *)
(* number of personalization rows.                                         *)
(***************************************************************************)
C17_Questions ==
    questions.set =>
        /\ Len(questions.rows) = Cardinality(Pairs)
        /\ \A pair \in Pairs :
             \E i \in 1..Len(questions.rows) :
                /\ << questions.rows[i]["Product Id"], questions.rows[i]["Question ID"] >> = pair
                /\ questions.rows[i]["_n_answers"] = Cardinality(Answers(pair))
        /\ \A i \in 1..Len(questions.rows) :
             << questions.rows[i]["Product Id"], questions.rows[i]["Question ID"] >> \in Pairs
        /\ SumAnswers(Len(questions.rows)) = Len(tables.personalizations)

\* The two answers of a question are not next to each other in the list.
C17_Witness ==
    /\ questions.set
    /\ Len(tables.personalizations) = 3
    /\ Pair(tables.personalizations[1]) = Pair(tables.personalizations[3])
    /\ Pair(tables.personalizations[1]) # Pair(tables.personalizations[2])
    /\ tables.personalizations[1] # tables.personalizations[3]
    /\ Len(questions.rows) = 2
    /\ \E i \in 1..2 : questions.rows[i]["_n_answers"] = 2

(***************************************************************************)
(* The keys that sort products by the order of their categories:          *)
(* _init_category_sort, product_key_by_category and                        *)
(* product_key_by_cat_and_name.                                            *)
(***************************************************************************)
Digits == "0123456789"

\* int(s) of a decimal number, with a minus sign or without one; int()
\* raises ValueError on what is no number.
IsNatural(s) ==
    /\ Len(s) > 0
    /\ \A i \in 1..Len(s) : \E d \in 1..Len(Digits) : SubSeq(Digits, d, d) = SubSeq(s, i, i)
CanInt(s) ==
    IF Len(s) > 0 /\ SubSeq(s, 1, 1) = "-"
    THEN IsNatural(SubSeq(s, 2, Len(s)))
    ELSE IsNatural(s)

RECURSIVE Natural(_)
Natural(s) ==
    IF Len(s) = 0 THEN 0
    ELSE 10 * Natural(SubSeq(s, 1, Len(s) - 1))
            + (CHOOSE d \in 1..Len(Digits) : SubSeq(Digits, d, d) = SubSeq(s, Len(s), Len(s)))
            - 1

int(s) ==
    IF SubSeq(s, 1, 1) = "-" THEN 0 - Natural(SubSeq(s, 2, Len(s))) ELSE Natural(s)

\* "{:05d}".format(n): the number filled with zeros to five characters, the
\* minus sign counted; a number of more than five characters is not cut.
RECURSIVE ZeroFill(_, _)
ZeroFill(s, width) == IF Len(s) >= width THEN s ELSE ZeroFill("0" \o s, width)

format05d(n) ==
    IF n < 0 THEN "-" \o ZeroFill(ToString(0 - n), 4) ELSE ZeroFill(ToString(n), 5)

\* The loop of _init_category_sort from category i on: the dictionary made
\* so far, and whether int() raised.
RECURSIVE CategorySortFrom(_, _, _)
CategorySortFrom(categories, i, sort) ==
    IF i > Len(categories) THEN [sort |-> sort, raised |-> FALSE]
    ELSE IF ~CanInt(categories[i]["Sort"]) THEN [sort |-> sort, raised |-> TRUE]
    ELSE CategorySortFrom(categories, i + 1,
                          DictSet(sort, categories[i]["Category Name"],
                                  int(categories[i]["Sort"])))

_init_category_sort(categories) == CategorySortFrom(categories, 1, <<>>)

category_sort_key(sort, category) ==
    IF category \in DOMAIN sort THEN format05d(sort[category]) ELSE category

product_key_by_cat_and_name(sort, product) ==
    category_sort_key(sort, product["Category"]) \o ":" \o product["Product Name"]

product_key_by_category(sort, product) ==
    category_sort_key(sort, product["Category"])

(***************************************************************************)
(* The product keys on their own: sorted(products, key=...) asks for the   *)
(* key of each product in turn, with the categories get_categories()       *)
(* returned.                                                               *)
(***************************************************************************)
MaxSorted == 2   \* products sorted

SortValues == {"-5", "5", "10", "99999", "100000"}

CategoryRow(name, sort) ==
    [k \in {"Category Name", "Sort"} |-> IF k = "Category Name" THEN name ELSE sort]

\* The products of one category or of the other, or of a category that is
\* not known.
SortInit ==
    /\ BrowserIdle
    /\ HeaderIdle
    /\ VariantsIdle
    /\ KeysIdle
    /\ PriceIdle
    /\ sortargs \in [categories : {<<CategoryRow("Bags", a), CategoryRow("Hats", b)>> :
                                      a \in SortValues, b \in SortValues},
                     products : {q \in SeqsUpTo(SampleProducts, MaxSorted) :
                                    Len(q) = MaxSorted}]
    /\ sortkeys = <<>>
    /\ SortUnused

CallProductKeys ==
    /\ Len(sortkeys) < Len(sortargs.products)
    /\ LET sort == _init_category_sort(sortargs.categories).sort
           product == sortargs.products[Len(sortkeys) + 1]
       IN  sortkeys' = Append(sortkeys,
                              [by_category |-> product_key_by_category(sort, product),
                               by_cat_and_name |-> product_key_by_cat_and_name(sort, product)])
    /\ UNCHANGED << sortargs, ordered, grouped, browser, headerv, variantsv, keysv, pricev >>

SortNext == CallProductKeys

SpecSort == SortInit /\ [][SortNext]_vars

\* The row of a category among the categories of sortargs, if it is known.
Known(category) ==
    \E n \in 1..Len(sortargs.categories) :
        sortargs.categories[n]["Category Name"] = category

SortOf(category) ==
    int(sortargs.categories[CHOOSE n \in 1..Len(sortargs.categories) :
            sortargs.categories[n]["Category Name"] = category]["Sort"])

(***************************************************************************)
(* C19.  Category display order: of two products with known categories,    *)
(* the one whose category has the smaller Sort has the smaller             *)
(* product_key_by_category and the smaller product_key_by_cat_and_name,    *)
(* whatever integers the Sort values are; the category key of a product    *)
(* whose category is not known is the name of the category.                *)
(***************************************************************************)
C19_CategoryOrder ==
    \A i \in 1..Len(sortkeys) :
        LET ci == sortargs.products[i]["Category"]
        IN  /\ ~Known(ci) => sortkeys[i].by_category = ci
            /\ \A j \in 1..Len(sortkeys) :
                 LET cj == sortargs.products[j]["Category"]
                 IN  (Known(ci) /\ Known(cj) /\ SortOf(ci) < SortOf(cj)) =>
                        /\ StrLess(sortkeys[i].by_category, sortkeys[j].by_category)
                        /\ StrLess(sortkeys[i].by_cat_and_name,
                                   sortkeys[j].by_cat_and_name)

\* The part of it that holds: Sort values from 0 to 99999.
C19_FiveDigits ==
    \A i, j \in 1..Len(sortkeys) :
        LET ci == sortargs.products[i]["Category"]
            cj == sortargs.products[j]["Category"]
        IN  (/\ Known(ci) /\ Known(cj)
             /\ SortOf(ci) < SortOf(cj)
             /\ SortOf(ci) >= 0
             /\ Len(ToString(SortOf(cj))) <= Len(format05d(0))) =>
                /\ StrLess(sortkeys[i].by_category, sortkeys[j].by_category)
                /\ StrLess(sortkeys[i].by_cat_and_name, sortkeys[j].by_cat_and_name)

(***************************************************************************)
(* The sort key helpers of a browser.  Each begins with                    *)
(*     if self._category_sort is None: self._init_category_sort()          *)
(* and _init_category_sort calls get_categories() when self._categories is *)
(* None; the two keys by category and product then call get_products().    *)
(* helper[p].stage is where the helper is: "categories" before the call of *)
(* get_categories(), "init" before the loop of _init_category_sort,        *)
(* "products" before the call of get_products(), "key" before the key is   *)
(* made.  A getter called by a helper runs as any getter does.             *)
(***************************************************************************)
MaxKeyCalls == 2   \* sort key helper calls

CatProductHelpers ==
    {"personalization_key_by_cat_product", "product_option_key_by_cat_product"}

\* Mutant: every helper calls get_products().
CallsGetProductsAlways(fn) == TRUE

CallsGetProducts(fn) == fn \in CatProductHelpers

AfterInit(fn) == IF CallsGetProducts(fn) THEN "products" ELSE "key"

\* What the helpers are given: a product of a known category and one of an
\* unknown category; a personalization of a product and one of no product;
\* a product option.
HelperCalls ==
    {<<"product_key_by_cat_and_name", ProductRow("Tote", "1001", "Bags")>>,
     <<"product_key_by_category", ProductRow("Tote", "1003", "Gifts")>>}
    \cup ({"personalization_key_by_cat_product"}
        \X {[k \in {"Product Name", "Product SKU", "Question Sort Order",
                    "Answer Sort Order"} |->
                CASE k = "Product Name" -> "Tote"
                  [] k = "Product SKU" -> sku
                  [] k = "Question Sort Order" -> "3"
                  [] OTHER -> "1"] : sku \in {"1001", "1009"}})
    \cup ({"product_option_key_by_cat_product"}
        \X {[k \in {"Product Name", "Product SKU", "Option Sort"} |->
                CASE k = "Product Name" -> "Tote"
                  [] k = "Product SKU" -> "1001"
                  [] OTHER -> "2"]})

KeyCall(p, fn, arg) ==
    /\ pc[p] = "idle"
    /\ helper[p] = NoHelper
    /\ nkeys < MaxKeyCalls
    /\ nkeys' = nkeys + 1
    /\ helper' = [helper EXCEPT ![p] =
          [fn |-> fn, arg |-> arg,
           stage |-> IF category_sort[p].set THEN AfterInit(fn)
                     ELSE IF MemoIsNone(p, "categories") THEN "categories"
                     ELSE "init",
           called_in |-> [sorted |-> category_sort[p].set,
                          products |-> memo[p]["products"].set]]]
    /\ UNCHANGED << category_sort, keys, browser, headerv, variantsv, sortv, pricev >>

\* _init_category_sort: self.get_categories()
KeyGetCategories(p) ==
    /\ pc[p] = "idle"
    /\ helper[p].stage = "categories"
    /\ ncalls < MaxCalls
    /\ ncalls' = ncalls + 1
    /\ res' = [res EXCEPT ![p] = "categories"]
    /\ pc' = [pc EXCEPT ![p] = IF MemoIsNone(p, "categories") THEN "with" ELSE "return"]
    /\ helper' = [helper EXCEPT ![p].stage = "init"]
    /\ UNCHANGED << now, files, lock, log, logged_in, memo, cache_ttl, clean,
                    current, response_object, nlogin >>
    /\ UNCHANGED << category_sort, nkeys, keys, headerv, variantsv, sortv, pricev >>

\* _init_category_sort: the dictionary and its loop; int() may raise.
KeyInitCategorySort(p) ==
    /\ pc[p] = "idle"
    /\ helper[p].stage = "init"
    /\ LET made == _init_category_sort(memo[p]["categories"].rows)
       IN  /\ category_sort' = [category_sort EXCEPT ![p] = [set |-> TRUE, sort |-> made.sort]]
           /\ IF made.raised
              THEN /\ pc' = [pc EXCEPT ![p] = "raised"]
                   /\ UNCHANGED helper
              ELSE /\ helper' = [helper EXCEPT ![p].stage = AfterInit(helper[p].fn)]
                   /\ UNCHANGED pc
    /\ UNCHANGED << now, files, lock, ncalls, res, log, logged_in, memo,
                    cache_ttl, clean, current, response_object, nlogin >>
    /\ UNCHANGED << nkeys, keys, headerv, variantsv, sortv, pricev >>

\* self.get_products()
KeyGetProducts(p) ==
    /\ pc[p] = "idle"
    /\ helper[p].stage = "products"
    /\ ncalls < MaxCalls
    /\ ncalls' = ncalls + 1
    /\ res' = [res EXCEPT ![p] = "products"]
    /\ pc' = [pc EXCEPT ![p] = IF MemoIsNone(p, "products") THEN "with" ELSE "return"]
    /\ helper' = [helper EXCEPT ![p].stage = "key"]
    /\ UNCHANGED << now, files, lock, log, logged_in, memo, cache_ttl, clean,
                    current, response_object, nlogin >>
    /\ UNCHANGED << category_sort, nkeys, keys, headerv, variantsv, sortv, pricev >>

\* The key by category and product of a row: the loop over self._products
\* stops at the first product of the row.  category_sort_key is unbound when
\* there is none, and int() may raise.
CatProductKey(sort, products, row, orders) ==
    LET found == {i \in 1..Len(products) :
                     /\ products[i]["Product Name"] = row["Product Name"]
                     /\ products[i]["SKU"] = row["Product SKU"]}
    IN  IF found = {} \/ \E n \in 1..Len(orders) : ~CanInt(row[orders[n]])
        THEN [raised |-> TRUE, key |-> <<>>]
        ELSE [raised |-> FALSE,
              key |-> << category_sort_key(sort, products[Least(found)]["Category"]),
                         products[Least(found)]["Product Name"] >>
                      \o [n \in 1..Len(orders) |-> int(row[orders[n]])]]

\* What the helper of p returns.
KeyOf(p) ==
    LET sort == category_sort[p].sort
        arg == helper[p].arg
        products == memo[p]["products"].rows
    IN  CASE helper[p].fn = "product_key_by_cat_and_name" ->
               [raised |-> FALSE, key |-> product_key_by_cat_and_name(sort, arg)]
          [] helper[p].fn = "product_key_by_category" ->
               [raised |-> FALSE, key |-> product_key_by_category(sort, arg)]
          [] helper[p].fn = "personalization_key_by_cat_product" ->
               CatProductKey(sort, products, arg,
                             <<"Question Sort Order", "Answer Sort Order">>)
          [] OTHER ->
               CatProductKey(sort, products, arg, <<"Option Sort">>)

KeyReturn(p) ==
    /\ pc[p] = "idle"
    /\ helper[p].stage = "key"
    /\ keys' = [keys EXCEPT ![p] = Append(@, KeyOf(p))]
    /\ helper' = [helper EXCEPT ![p] = NoHelper]
    /\ pc' = [pc EXCEPT ![p] = IF KeyOf(p).raised THEN "raised" ELSE "idle"]
    /\ UNCHANGED << now, files, lock, ncalls, res, log, logged_in, memo,
                    cache_ttl, clean, current, response_object, nlogin >>
    /\ UNCHANGED << category_sort, nkeys, headerv, variantsv, sortv, pricev >>

\* for sort, name in enumerate(categories): self._category_sort[name] = sort
RECURSIVE Enumerate(_, _, _)
Enumerate(categories, i, sort) ==
    IF i > Len(categories) THEN sort
    ELSE Enumerate(categories, i + 1, DictSet(sort, categories[i], i - 1))

set_category_sort_order(p, categories) ==
    /\ pc[p] = "idle"
    /\ helper[p] = NoHelper
    /\ category_sort' = [category_sort EXCEPT ![p] =
                            [set |-> TRUE, sort |-> Enumerate(categories, 1, <<>>)]]
    /\ UNCHANGED << helper, nkeys, keys, browser, headerv, variantsv, sortv, pricev >>

KeysInit ==
    /\ BrowserIdle
    /\ HeaderIdle
    /\ VariantsIdle
    /\ SortIdle
    /\ PriceIdle
    /\ KeysIdle

\* A script calls a getter, sets the order of the categories or asks for a
\* key when it is in none of them.
KeysNext ==
    \/ Tick
    \/ \E p \in Procs :
        \/ helper[p] = NoHelper /\ get_products(p)
        \/ helper[p] = NoHelper /\ get_categories(p)
        \/ set_category_sort_order(p, <<"Hats", "Bags">>)
        \/ \E call \in HelperCalls : KeyCall(p, call[1], call[2])
        \/ KeyGetCategories(p)
        \/ KeyInitCategorySort(p)
        \/ KeyGetProducts(p)
        \/ KeyReturn(p)
        \/ Return(p)
        \/ Acquire(p)
        \/ CheckCache(p)
        \/ LoginOpen(p)
        \/ LoginSubmit(p)
        \/ ExportOpen(p)
        \/ ExportSubmit(p)
        \/ \E pct \in {50, 100}, c \in Cursors : Poll(p, pct, c)
        \/ Retrieve(p)
        \/ Read(p)
        \/ Exit(p)
        \/ Raise(p)

SpecKeys == KeysInit /\ [][KeysNext]_vars

\* p is in a helper; a step in which p does no input or output and in which
\* the state of its browser stays as it is.
InHelper(p) == helper[p] # NoHelper

NoIO(p) ==
    /\ log'[p] = log[p]
    /\ ((lock' = p) <=> (lock = p))
    /\ pc'[p] \in {"idle", "return", "raised"}

NoStateChange(p) ==
    /\ memo'[p] = memo[p]
    /\ category_sort'[p] = category_sort[p]
    /\ logged_in'[p] = logged_in[p]

(***************************************************************************)
(* C18.  The sort key helpers are pure: in whatever state of the browser   *)
(* product_key_by_cat_and_name, product_key_by_category,                   *)
(* personalization_key_by_cat_product or product_option_key_by_cat_product *)
(* is called, no step of the call acquires the lock, reads the cache or    *)
(* sends a request, and none changes the state of the browser.             *)
(***************************************************************************)
C18_HelpersPure ==
    [][\A p \in Procs : InHelper(p) => NoIO(p) /\ NoStateChange(p)]_vars

\* As amended: the helpers are pure when they are called with the category
\* sort dictionary made and, for the two keys by category and product, with
\* the products in memory.
C18_PureOnceInitialised ==
    [][\A p \in Procs :
          (/\ InHelper(p)
           /\ helper[p].called_in.sorted
           /\ (helper[p].fn \in CatProductHelpers => helper[p].called_in.products))
             => NoIO(p) /\ NoStateChange(p)]_vars

\* A key by category and product is being made after get_products() has
\* returned the products in memory.
C18_Witness ==
    \E p \in Procs :
        /\ helper[p].fn = "personalization_key_by_cat_product"
        /\ helper[p].called_in.sorted
        /\ helper[p].called_in.products
        /\ helper[p].stage = "key"
        /\ pc[p] = "return"

(***************************************************************************)
(* calc_price.py computes in Python floats, which are IEEE 754 doubles: a  *)
(* double is m * 2^e with a significand m of at most 53 bits, and each     *)
(* operation gives the double nearest to the exact result, the one with    *)
(* the even significand when two are as near.  The significands do not fit *)
(* the integers of the model checker, so they are kept as sequences of     *)
(* limbs of 13 bits, the least significant first, without leading zeros.   *)
(* The numbers here are not negative and far from the ends of the exponent *)
(* range.                                                                  *)
(***************************************************************************)
LimbBits == 13
Base == 2^LimbBits
Precision == 53

Max(a, b) == IF a >= b THEN a ELSE b
Min(a, b) == IF a <= b THEN a ELSE b

RECURSIVE Trim(_)
Trim(a) ==
    IF Len(a) > 0 /\ a[Len(a)] = 0 THEN Trim(SubSeq(a, 1, Len(a) - 1)) ELSE a

\* The limbs of the number whose limbs, not yet in 0..Base-1, are s, plus c.
RECURSIVE Propagate(_, _)
Propagate(s, c) ==
    IF Len(s) = 0
    THEN IF c = 0 THEN <<>> ELSE <<c % Base>> \o Propagate(<<>>, c \div Base)
    ELSE <<(s[1] + c) % Base>> \o Propagate(Tail(s), (s[1] + c) \div Base)

Limb(a, i) == IF i \in 1..Len(a) THEN a[i] ELSE 0

FromInt(n) == Trim(Propagate(<<n>>, 0))

RECURSIVE ToInt(_)
ToInt(a) == IF Len(a) = 0 THEN 0 ELSE a[1] + Base * ToInt(Tail(a))

BigAdd(a, b) ==
    Trim(Propagate([i \in 1..Max(Len(a), Len(b)) |-> Limb(a, i) + Limb(b, i)], 0))

\* a - b, for a >= b.
BigSub(a, b) ==
    Trim(Propagate([i \in 1..Max(Len(a), Len(b)) |-> Limb(a, i) - Limb(b, i)], 0))

RECURSIVE Dot(_, _, _, _)
Dot(a, b, k, i) ==
    IF i = 0 THEN 0 ELSE Limb(a, i) * Limb(b, k + 1 - i) + Dot(a, b, k, i - 1)

BigMul(a, b) ==
    IF Len(a) = 0 \/ Len(b) = 0 THEN <<>>
    ELSE Trim(Propagate([k \in 1..(Len(a) + Len(b) - 1) |-> Dot(a, b, k, k)], 0))

RECURSIVE BigLess(_, _)
BigLess(a, b) ==
    IF Len(a) # Len(b) THEN Len(a) < Len(b)
    ELSE IF Len(a) = 0 THEN FALSE
    ELSE IF a[Len(a)] # b[Len(b)] THEN a[Len(a)] < b[Len(b)]
    ELSE BigLess(Trim(SubSeq(a, 1, Len(a) - 1)), Trim(SubSeq(b, 1, Len(b) - 1)))

RECURSIVE BitsOf(_)
BitsOf(n) == IF n = 0 THEN 0 ELSE 1 + BitsOf(n \div 2)

BitLen(a) == IF Len(a) = 0 THEN 0 ELSE (Len(a) - 1) * LimbBits + BitsOf(a[Len(a)])

\* The quotient and the remainder of the limbs 1..i of a, with rem above
\* them, by a divisor d of at most Base.
RECURSIVE DivSmall(_, _, _, _)
DivSmall(a, d, i, rem) ==
    IF i = 0 THEN [q |-> <<>>, r |-> rem]
    ELSE LET cur == rem * Base + a[i]
             rest == DivSmall(a, d, i - 1, cur % d)
         IN  [q |-> Append(rest.q, cur \div d), r |-> rest.r]

ShiftLeft(a, n) ==
    IF Len(a) = 0 THEN <<>>
    ELSE [i \in 1..(n \div LimbBits) |-> 0] \o BigMul(a, <<2^(n % LimbBits)>>)

ShiftRight(a, n) ==
    LET kept == SubSeq(a, (n \div LimbBits) + 1, Len(a))
    IN  Trim(DivSmall(kept, 2^(n % LimbBits), Len(kept), 0).q)

\* The double nearest to m * 2^e, or to a number a little above it when
\* sticky says that something was cut off m before.
Round(m, e, sticky) ==
    IF BitLen(m) <= Precision THEN [m |-> m, e |-> e]
    ELSE LET k == BitLen(m) - Precision
             q == ShiftRight(m, k)
             twice == BigMul(BigSub(m, ShiftLeft(q, k)), <<2>>)
             unit == ShiftLeft(<<1>>, k)
             up == \/ BigLess(unit, twice)
                   \/ twice = unit /\ (sticky \/ q[1] % 2 = 1)
         IN  [m |-> IF up THEN BigAdd(q, <<1>>) ELSE q, e |-> e + k]

\* float(n) of a whole number.
Float(n) == [m |-> FromInt(n), e |-> 0]

FloatMul(x, y) == Round(BigMul(x.m, y.m), x.e + y.e, FALSE)

\* Both significands at the smaller exponent.
Aligned(x, y) ==
    [x |-> ShiftLeft(x.m, x.e - Min(x.e, y.e)),
     y |-> ShiftLeft(y.m, y.e - Min(x.e, y.e)),
     e |-> Min(x.e, y.e)]

FloatAdd(x, y) == Round(BigAdd(Aligned(x, y).x, Aligned(x, y).y), Aligned(x, y).e, FALSE)

\* x - y, for x >= y.
FloatSub(x, y) == Round(BigSub(Aligned(x, y).x, Aligned(x, y).y), Aligned(x, y).e, FALSE)

\* x / d for a whole number d of at most Base: the quotient with more bits
\* than a double has, and whether there is a remainder.
QuotientBits == 5 * LimbBits

FloatDiv(x, d) ==
    LET shifted == ShiftLeft(x.m, QuotientBits)
        division == DivSmall(shifted, d, Len(shifted), 0)
    IN  Round(Trim(division.q), x.e - QuotientBits, division.r # 0)

\* math.floor(x), a whole number.
floor(x) ==
    IF x.e >= 0 THEN ToInt(ShiftLeft(x.m, x.e)) ELSE ToInt(ShiftRight(x.m, 0 - x.e))

\* float() of an argument given in tenths: the double nearest to tenths/10.
FloatOfTenths(tenths) == FloatDiv(Float(tenths), 10)

(***************************************************************************)
(* calc_event_price.  The retail price and the discount are whole numbers, *)
(* the sales tax is in tenths of a percent (83 is 8.3).                    *)
(***************************************************************************)
calc_event_price(retail_price, discount_percent, sales_tax_tenths) ==
    LET discounted ==
            FloatMul(Float(retail_price),
                     FloatSub(Float(1), FloatDiv(Float(discount_percent), 100)))
        taxed ==
            FloatMul(discounted,
                     FloatAdd(Float(1), FloatDiv(FloatOfTenths(sales_tax_tenths), 100)))
    IN  Max(1, floor(FloatAdd(taxed, [m |-> <<1>>, e |-> 0 - 1])))

\* The digit of a long division: the quotient of cur by b, where b has its
\* top limb at least Base / 2 and cur is less than b * Base.  The quotient of
\* the top limbs is the digit or at most two above it.
Digit(cur, b) ==
    LET guess == Min(Base - 1, (Limb(cur, Len(b) + 1) * Base + Limb(cur, Len(b)))
                                   \div b[Len(b)])
    IN  CHOOSE d \in Max(0, guess - 2)..guess :
            /\ ~BigLess(cur, BigMul(b, FromInt(d)))
            /\ BigLess(cur, BigMul(b, FromInt(d + 1)))

\* The quotient and the remainder of the limbs 1..i of a, with rem (less
\* than b) above them, by b.
RECURSIVE BigDiv(_, _, _, _)
BigDiv(a, b, i, rem) ==
    IF i = 0 THEN [q |-> <<>>, r |-> rem]
    ELSE LET cur == Trim(<<a[i]>> \o rem)
             digit == Digit(cur, b)
             rest == BigDiv(a, b, i - 1, BigSub(cur, BigMul(b, FromInt(digit))))
         IN  IF digit = 0
             THEN [q |-> Append(BigDiv(a, b, i - 1, cur).q, 0),
                   r |-> BigDiv(a, b, i - 1, cur).r]
             ELSE [q |-> Append(rest.q, digit), r |-> rest.r]

\* x / y for y above zero: the quotient with more bits than a double has,
\* and whether there is a remainder.  Both significands are shifted until
\* the top limb of the divisor is at least Base / 2; the top limbs of the
\* dividend, one fewer than the divisor has, are the first remainder.
FloatDivide(x, y) ==
    IF Len(x.m) = 0 THEN x
    ELSE LET n == LimbBits - BitsOf(y.m[Len(y.m)])
             shift == Max(0, BitLen(y.m) + Precision + 3 - BitLen(x.m))
             a == ShiftLeft(x.m, shift + n)
             b == ShiftLeft(y.m, n)
             low == Len(a) - Len(b) + 1
             division == BigDiv(a, b, low, SubSeq(a, low + 1, Len(a)))
         IN  Round(Trim(division.q), x.e - shift - y.e, Len(division.r) # 0)

(***************************************************************************)
(* calc_retail_price, of an event price that is a whole number.  The       *)
(* numbers here are not negative: dimes / 10.0 - 0.01 is below 0.01        *)
(* exactly when dimes is 0, and then max() gives 0.01.  A division by 0.0  *)
(* raises ZeroDivisionError.                                               *)
(***************************************************************************)
ZeroDivisionError == [m |-> <<>>, e |-> 0, raised |-> "ZeroDivisionError"]

\* Mutant: the sales tax is not removed.
RetailPriceWithTax(event_price, discount_percent, sales_tax_tenths) ==
    LET rest == FloatSub(Float(1), FloatDiv(Float(discount_percent), 100))
        undiscounted == FloatDivide(Float(event_price), rest)
        dimes == floor(FloatAdd(FloatMul(undiscounted, Float(10)),
                                [m |-> <<1>>, e |-> 0 - 1]))
    IN  IF Len(rest.m) = 0 THEN ZeroDivisionError
        ELSE IF Len(undiscounted.m) = 0 \/ dimes = 0
        THEN FloatDiv(Float(1), 100)
        ELSE FloatSub(FloatDiv(Float(dimes), 10), FloatDiv(Float(1), 100))

calc_retail_price(event_price, discount_percent, sales_tax_tenths) ==
    LET taxed == FloatAdd(Float(1), FloatDiv(FloatOfTenths(sales_tax_tenths), 100))
        rest == FloatSub(Float(1), FloatDiv(Float(discount_percent), 100))
        untaxed == FloatDivide(Float(event_price), taxed)
        undiscounted == FloatDivide(untaxed, rest)
        dimes == floor(FloatAdd(FloatMul(undiscounted, Float(10)),
                                [m |-> <<1>>, e |-> 0 - 1]))
    IN  IF Len(taxed.m) = 0 \/ Len(rest.m) = 0 THEN ZeroDivisionError
        ELSE IF Len(untaxed.m) = 0 \/ Len(undiscounted.m) = 0 \/ dimes = 0
        THEN FloatDiv(Float(1), 100)
        ELSE FloatSub(FloatDiv(Float(dimes), 10), FloatDiv(Float(1), 100))

MaxRetail == 100   \* retail prices, in dollars

Discounts == {0, 30, 55, 90}
TaxTenths == {0, 83}

PriceInit ==
    /\ BrowserIdle
    /\ HeaderIdle
    /\ VariantsIdle
    /\ KeysIdle
    /\ SortIdle
    /\ priceargs \in [retail_price : 0..MaxRetail,
                      discount_percent : Discounts,
                      sales_tax_percent : TaxTenths]
    /\ price = NoPrice
    /\ retail = NoRetail

CallCalcEventPrice ==
    /\ ~price.set
    /\ price' = [set |-> TRUE,
                 value |-> calc_event_price(priceargs.retail_price,
                                            priceargs.discount_percent,
                                            priceargs.sales_tax_percent)]
    /\ UNCHANGED << priceargs, retail, browser, headerv, variantsv, keysv, sortv >>

\* The retail price of the event price that was calculated.
CallCalcRetailPrice ==
    /\ price.set
    /\ ~retail.set
    /\ retail' = [set |-> TRUE,
                  value |-> calc_retail_price(price.value,
                                              priceargs.discount_percent,
                                              priceargs.sales_tax_percent)]
    /\ UNCHANGED << priceargs, price, browser, headerv, variantsv, keysv, sortv >>

PriceNext == CallCalcEventPrice \/ CallCalcRetailPrice

SpecPrice == PriceInit /\ [][PriceNext]_vars

\* r * (1 - d/100) * (1 + t/100) with t in tenths is
\* r * (100 - d) * (1000 + t) / 100000; the whole number nearest to it, the
\* upper one of two.
RoundHalfUp(num, den) == (2 * num + den) \div (2 * den)

ExactEventPrice(r, d, t) ==
    Max(1, RoundHalfUp(r * (100 - d) * (1000 + t), 100000))

(***************************************************************************)
(* C20.  calc_event_price(r, d, t) is max(1, r * (1 - d/100) * (1 + t/100) *)
(* rounded to the nearest dollar, a half dollar upwards); the price of 100 *)
(* at a discount of 30 and a tax of 8.3 is 76.                             *)
(***************************************************************************)
C20_EventPrice ==
    price.set =>
        /\ price.value = ExactEventPrice(priceargs.retail_price,
                                         priceargs.discount_percent,
                                         priceargs.sales_tax_percent)
        /\ (/\ priceargs.retail_price = 100
            /\ priceargs.discount_percent = 30
            /\ priceargs.sales_tax_percent = 83) => price.value = 76

\* The price x in cents, rounded to the nearest cent: prices are printed
\* with two decimals.
Cents(x) ==
    IF x.e >= 0 THEN 100 * ToInt(ShiftLeft(x.m, x.e))
    ELSE ToInt(ShiftRight(BigAdd(BigMul(x.m, FromInt(200)), ShiftLeft(<<1>>, 0 - x.e)),
                          1 - x.e))

\* |x - r| for a double x and a whole number r, as a significand at the
\* exponent e.
Distance(x, r) ==
    LET al == Aligned(x, Float(r))
    IN  [m |-> IF BigLess(al.x, al.y) THEN BigSub(al.y, al.x) ELSE BigSub(al.x, al.y),
         e |-> al.e]

\* |x - r| <= 0.5 / ((1 - d/100) * (1 + t/100)) + 0.06, with t in tenths:
\* with K = (100 - d) * (1000 + t) the bound is 50000 / K + 3 / 50, so the
\* condition is |x - r| * 50 * K <= 2500000 + 3 * K, taken at the exponent
\* of the distance.
WithinTolerance(x, r, d, t) ==
    LET K == (100 - d) * (1000 + t)
        dist == Distance(x, r)
    IN  ~BigLess(ShiftLeft(FromInt(2500000 + 3 * K), 0 - dist.e),
                 BigMul(dist.m, FromInt(50 * K)))

(***************************************************************************)
(* C21.  Price round trip: when the event price e of the retail price r is *)
(* above the floor of 1, calc_retail_price(e, d, t) differs from r by at   *)
(* most 0.5 / ((1 - d/100)(1 + t/100)) + 0.06; the retail price is a whole *)
(* number of dimes less a penny, or the floor of 0.01; and                 *)
(* calc_retail_price(76, 30, 8.3) is 100.29.                               *)
(***************************************************************************)
C21_RoundTrip ==
    retail.set =>
        /\ price.value > 1 =>
               WithinTolerance(retail.value, priceargs.retail_price,
                               priceargs.discount_percent, priceargs.sales_tax_percent)
        /\ Cents(retail.value) = 1 \/ Cents(retail.value) % 10 = 9
        /\ (/\ price.value = 76
            /\ priceargs.discount_percent = 30
            /\ priceargs.sales_tax_percent = 83) => Cents(retail.value) = 10029

C21_Witness ==
    /\ retail.set
    /\ priceargs.retail_price = 100
    /\ priceargs.discount_percent = 30
    /\ priceargs.sales_tax_percent = 83
    /\ price.value = 76
    /\ Cents(retail.value) = 10029

(***************************************************************************)
(* Vocabulary of the properties of one download.                           *)
(***************************************************************************)
\* The steps of a getter call in the order of the code.
ExportSteps ==
    << "lock", "stat", "login_open", "login_submit", "export_open",
       "export_submit", "poll", "retrieve", "write", "read", "raise" >>

StepOf(e) == IndexOf(ExportSteps, e)

Has(l, e) == \E i \in 1..Len(l) : l[i] = e

\* p issues the request for the result file.
Fetches(p) == ~Has(log[p], "retrieve") /\ Has(log'[p], "retrieve")

(***************************************************************************)
(* C22.  Export step ordering: within one download the requests come in    *)
(* the order login (when not yet logged in), export page, form submission  *)
(* (products only), polls, fetch of the result file; the result file is    *)
(* fetched and the cache file written only after an answer with            *)
(* percentComplete = 100; no form is submitted for categories,             *)
(* personalizations or product options.                                    *)
(***************************************************************************)
C22_ExportOrder ==
    /\ [](\A p \in Procs :
            /\ \A i, j \in 1..Len(log[p]) :
                   i < j => \/ StepOf(log[p][i]) < StepOf(log[p][j])
                            \/ log[p][i] = "poll" /\ log[p][j] = "poll"
            /\ Has(log[p], "login_submit") => Has(log[p], "login_open")
            /\ Has(log[p], "export_open") => logged_in[p]
            /\ Has(log[p], "export_submit")
                   => (res[p] = "products" /\ Has(log[p], "export_open"))
            /\ Has(log[p], "poll")
                   => /\ Has(log[p], "export_open")
                      /\ res[p] = "products" => Has(log[p], "export_submit")
            /\ Has(log[p], "retrieve") => Has(log[p], "poll")
            /\ Has(log[p], "write") => Has(log[p], "retrieve")
            /\ pc[p] = "retrieve" => response_object[p].percentComplete = 100)
    /\ [][\A p \in Procs :
            Fetches(p) => /\ response_object[p].received
                          /\ response_object[p].percentComplete = 100
                          /\ log[p][Len(log[p])] = "poll"]_vars

\* A download of the products by an instance that has to log in: two polls,
\* the second answered with 100, and the cache file written.
C22_Witness ==
    \E p \in Procs :
        /\ res[p] = "products"
        /\ log[p] = << "lock", "stat", "login_open", "login_submit", "export_open",
                       "export_submit", "poll", "poll", "retrieve", "write" >>
        /\ OwnFile(p).exists

(***************************************************************************)
(* C23.  Poll cursor round trip: the first processExportCycle request of   *)
(* an export carries current = 0 and every later one carries the current   *)
(* of the answer just before it, as it came; no cursor is carried from one *)
(* export into the next.  The request that p is about to issue at "poll"   *)
(* carries current[p].                                                     *)
(***************************************************************************)
C23_CursorRoundTrip ==
    /\ [](\A p \in Procs :
            pc[p] = "poll" =>
                IF Has(log[p], "poll")
                THEN /\ response_object[p].received
                     /\ current[p] = response_object[p].current
                ELSE /\ ~response_object[p].received
                     /\ current[p] = 0)
    /\ [][\A p \in Procs :
            (pc[p] = "poll" /\ pc'[p] = "poll" /\ log'[p] # log[p])
                => current'[p] = response_object'[p].current]_vars

\* The second request of an export, after an answer with the cursor 2.
C23_Witness ==
    \E p \in Procs :
        /\ pc[p] = "poll"
        /\ CountOf(log[p], "poll") = 1
        /\ response_object[p] = Response(50, 2)
        /\ current[p] = 2

\* The first request of a second export of an instance whose first export
\* was answered with a cursor.
C23_NextExport ==
    \E p \in Procs :
        /\ pc[p] = "poll"
        /\ ~Has(log[p], "poll")
        /\ \E r \in Resources : memo[p][r].set /\ files[CacheFile(r)].mtime = now
        /\ current[p] = 0

(***************************************************************************)
(* The browser with no request failing, every process going on with the    *)
(* call it is in, and the site answering each request: a process inside a  *)
(* getter is a running script and the operating system schedules it.  The  *)
(* site answers 100 to the MaxPolls-th request of an export at the latest. *)
(* The fairness of the repair step is stated on pc: the step from "repair" *)
(* to "read" is Repair(p).                                                 *)
(***************************************************************************)
Going(p) ==
    \/ Return(p)
    \/ Acquire(p)
    \/ CheckCache(p)
    \/ LoginOpen(p)
    \/ LoginSubmit(p)
    \/ ExportOpen(p)
    \/ ExportSubmit(p)
    \/ \E pct \in {50, 100}, c \in Cursors : Poll(p, pct, c)
    \/ Retrieve(p)
    \/ Read(p)
    \/ Exit(p)

Repaired(p) == pc[p] = "repair" /\ pc' = [pc EXCEPT ![p] = "read"]

LiveInit == BrowserIdle /\ DerivedIdle

LiveNext ==
    \/ Tick
    \/ \E p \in Procs :
        \/ get_products(p)
        \/ get_categories(p)
        \/ get_personalizations(p)
        \/ get_product_options(p)
        \/ Going(p)
        \/ Repair(p)

SpecLive ==
    /\ LiveInit
    /\ [][LiveNext]_vars
    /\ \A p \in Procs : WF_vars(Going(p)) /\ WF_pc(Repaired(p))

\* p receives the answer to a processExportCycle request.
Answered(p) == pc[p] = "poll" /\ log'[p] = Append(log[p], "poll")

(***************************************************************************)
(* C24.  Poll termination: with the site answering 100 at some time and no *)
(* request failing, the loop stops at the first answer with                *)
(* percentComplete = 100 and no poll request follows it; the result file   *)
(* is then fetched and the getter returns; an answer with another          *)
(* percentComplete leaves the process about to issue one more poll         *)
(* request.                                                                *)
(***************************************************************************)
C24_PollTermination ==
    /\ [][\A p \in Procs :
            Answered(p) =>
                IF response_object'[p].percentComplete = 100
                THEN pc'[p] = "retrieve"
                ELSE pc'[p] = "poll"]_vars
    /\ [](\A p \in Procs :
            /\ (pc[p] = "poll" /\ response_object[p].received)
                   => response_object[p].percentComplete # 100
            /\ Has(log[p], "retrieve") => log[p][IndexOf(log[p], "retrieve") - 1] = "poll")
    /\ \A p \in Procs :
          /\ (pc[p] = "poll") ~> Has(log[p], "retrieve")
          /\ (pc[p] = "poll") ~> (pc[p] = "idle" /\ memo[p][res[p]].set)

\* An export answered 50 and then 100, at the fetch of the result file.
C24_Witness ==
    \E p \in Procs :
        /\ pc[p] = "retrieve"
        /\ CountOf(log[p], "poll") = 2
        /\ response_object[p].percentComplete = 100

(***************************************************************************)
(* The browser with a site whose export never gets to 100: every answer to *)
(* a processExportCycle request has percentComplete = 50.  No request      *)
(* fails.  The cache directory starts with any of the cache files there,   *)
(* written at time 0, so that some calls read and return.  Of the polls    *)
(* of an export the log keeps the first MaxPolls.                          *)
(***************************************************************************)
HungPoll(p, cursor) ==
    /\ pc[p] = "poll"
    /\ log' = [log EXCEPT ![p] =
                 IF CountOf(@, "poll") < MaxPolls THEN Append(@, "poll") ELSE @]
    /\ response_object' = [response_object EXCEPT ![p] = Response(50, cursor)]
    /\ IF ExportDone(Response(50, cursor))
       THEN /\ pc' = [pc EXCEPT ![p] = "retrieve"]
            /\ UNCHANGED current
       ELSE /\ pc' = pc
            /\ current' = [current EXCEPT ![p] =
                              NextCurrent(Response(50, cursor), @)]
    /\ UNCHANGED << now, files, lock, ncalls, res, logged_in, memo,
                    cache_ttl, clean, nlogin >>
    /\ UNCHANGED derived

HungGoing(p) ==
    \/ Return(p)
    \/ Acquire(p)
    \/ CheckCache(p)
    \/ LoginOpen(p)
    \/ LoginSubmit(p)
    \/ ExportOpen(p)
    \/ ExportSubmit(p)
    \/ \E c \in Cursors : HungPoll(p, c)
    \/ Read(p)
    \/ Exit(p)

\* The cache file of r as an export at time 0 left it.
Exported(r) ==
    [exists |-> TRUE, mtime |-> 0,
     data |-> IF NeedsRepair(r) THEN repair_product_options_csv(SiteData(r, 0))
              ELSE SiteData(r, 0)]

HungInit ==
    /\ \E cached \in SUBSET Resources :
          files = [f \in FileNames |->
                     IF \E r \in cached : f = CacheFile(r)
                     THEN Exported(CHOOSE r \in cached : f = CacheFile(r))
                     ELSE IF \E r \in cached : NeedsRepair(r) /\ f = TmpFile(r)
                     THEN [exists |-> TRUE, mtime |-> 0,
                           data |-> SiteData(CHOOSE r \in cached : f = TmpFile(r), 0)]
                     ELSE NoFile]
    /\ now = 0
    /\ lock = NoProc
    /\ ncalls = 0
    /\ pc = [p \in Procs |-> "idle"]
    /\ res = [p \in Procs |-> "products"]
    /\ log = [p \in Procs |-> <<>>]
    /\ logged_in = [p \in Procs |-> FALSE]
    /\ memo = [p \in Procs |-> [r \in Resources |-> NoMemo]]
    /\ cache_ttl = [p \in Procs |-> CacheTtl]
    /\ clean = [p \in Procs |-> TRUE]
    /\ current = [p \in Procs |-> 0]
    /\ response_object = [p \in Procs |-> NoResponse]
    /\ nlogin = [p \in Procs |-> 0]
    /\ DerivedIdle

HungNext ==
    \/ Tick
    \/ \E p \in Procs :
        \/ get_products(p)
        \/ get_categories(p)
        \/ get_personalizations(p)
        \/ get_product_options(p)
        \/ HungGoing(p)

SpecHung == HungInit /\ [][HungNext]_vars /\ \A p \in Procs : WF_vars(HungGoing(p))

\* p is in the poll loop.
Polling(p) == pc[p] = "poll"

(***************************************************************************)
(* C25.  No timeout or cancellation: with a site that never answers        *)
(* percentComplete = 100, a process that is in the poll loop stays in it   *)
(* for ever and goes on issuing poll requests; it never fetches the result *)
(* file, the cache files stay as they are, the getter never returns, the   *)
(* process holds the download lock all the time, and every other process   *)
(* that is at the with statement of a getter stays there.                  *)
(***************************************************************************)
C25_NoTimeout ==
    /\ [][\A p \in Procs :
            Polling(p) => /\ pc'[p] = "poll"
                          /\ files' = files
                          /\ memo'[p] = memo[p]
                          /\ \A q \in Procs \ {p} : pc[q] = "with" => pc'[q] = "with"]_vars
    /\ [](\A p \in Procs :
            Polling(p) => /\ lock = p
                          /\ ~Has(log[p], "retrieve")
                          /\ ~memo[p][res[p]].set
                          /\ \A q \in Procs \ {p} : ~InWithBlock(q))
    /\ \A p \in Procs :
          \/ []<>(~Polling(p))
          \/ []<><<\E c \in Cursors : HungPoll(p, c)>>_vars

\* A process in the loop after MaxPolls polls, the time having passed, and
\* another process waiting at the with statement.
C25_Witness ==
    \E p \in Procs : \E q \in Procs \ {p} :
        /\ Polling(p)
        /\ CountOf(log[p], "poll") = MaxPolls
        /\ now = MaxTime
        /\ pc[q] = "with"

(***************************************************************************)
(* C26.  _is_file_expired returns true exactly when the file does not      *)
(* exist or now > mtime + cache_ttl, strictly: a file with                 *)
(* now = mtime + cache_ttl is not expired.  The getter downloads exactly   *)
(* when it returns true.                                                   *)
(***************************************************************************)
C26_ExpiredExactly ==
    [][\A p \in Procs :
          ChecksCache(p) =>
              /\ _is_file_expired(OwnFile(p), cache_ttl[p], now)
                     <=> (~OwnFile(p).exists \/ now > OwnFile(p).mtime + cache_ttl[p])
              /\ pc'[p] # "read"
                     <=> (~OwnFile(p).exists \/ now > OwnFile(p).mtime + cache_ttl[p])
              /\ (OwnFile(p).exists /\ now = OwnFile(p).mtime + cache_ttl[p])
                     => pc'[p] = "read"]_vars

\* A file found at the very end of its cache_ttl, and read.
C26_Witness ==
    \E p \in Procs :
        /\ pc[p] = "read"
        /\ log[p] = << "lock", "stat" >>
        /\ cache_ttl[p] = CacheTtl
        /\ OwnFile(p).exists
        /\ now = OwnFile(p).mtime + CacheTtl

\* A file found one second after the end of its cache_ttl, and downloaded
\* again.
C26_Expired ==
    \E p \in Procs :
        /\ pc[p] = "export_open"
        /\ cache_ttl[p] = CacheTtl
        /\ OwnFile(p).exists
        /\ now = OwnFile(p).mtime + CacheTtl + 1

\* p is between its expiry check and the end of its download.
Downloading(p) == pc[p] \in Requests \cup {"repair"}

\* The cache file of p's call is present and younger than cache_ttl.
Fresh(p) == OwnFile(p).exists /\ now - OwnFile(p).mtime < cache_ttl[p]

(***************************************************************************)
(* C27.  One download for concurrent callers: of two processes that call   *)
(* the getter of the same resource while its cache file is missing or      *)
(* expired, only one is downloading at a time, the other waiting for the   *)
(* lock; the one that gets the lock second and checks the file less than   *)
(* cache_ttl after it was written finds it fresh, reads it with no network *)
(* request and leaves it as it was written, so one export has run in all.  *)
(***************************************************************************)
C27_OneDownload ==
    /\ [](\A p, q \in Procs :
            (p # q /\ Downloading(p)) => ~(Downloading(q) \/ pc[q] \in {"check", "read"}))
    /\ [][\A q \in Procs :
            (ChecksCache(q) /\ Fresh(q))
                => (pc'[q] = "read" /\ NoRequest(log'[q]))]_vars
    /\ [][\A q \in Procs :
            (pc[q] \in {"read", "exit"} /\ NoRequest(log[q]))
                => (files' = files /\ NoRequest(log'[q]))]_vars

\* The second of two calls for the products with the same cache_ttl, made
\* while the first was downloading, reads at the time of the cache write.
C27_Witness ==
    \E p, q \in Procs :
        /\ p # q
        /\ ncalls = 2
        /\ res[p] = "products" /\ res[q] = "products"
        /\ cache_ttl[p] = CacheTtl /\ cache_ttl[q] = CacheTtl
        /\ pc[p] = "idle" /\ memo[p]["products"].set
        /\ pc[q] = "read" /\ log[q] = << "lock", "stat" >>
        /\ now = OwnFile(q).mtime
        /\ ~memo[q]["products"].set

\* Two processes in the call for the same resource, the file missing: one
\* polls, the other waits.
C27_Concurrent ==
    \E p, q \in Procs :
        /\ res[p] = res[q]
        /\ pc[p] = "poll"
        /\ pc[q] = "with"
        /\ ~OwnFile(p).exists

(***************************************************************************)
(* An exception inside the with block that is not a failed request: the    *)
(* expiry check (os.stat), the reading of the cache file (open, csv) or    *)
(* the cleaning of the rows (a KeyError) raises.  The with statement       *)
(* releases the lock and the getter raises.                                *)
(***************************************************************************)
RaiseInBlock(p) ==
    /\ pc[p] \in {"check", "read"}
    /\ log' = [log EXCEPT ![p] = Append(@, "raise")]
    /\ lock' = NoProc
    /\ pc' = [pc EXCEPT ![p] = "raised"]
    /\ UNCHANGED << now, files, ncalls, res, logged_in, memo, cache_ttl, clean,
                    current, response_object, nlogin >>
    /\ UNCHANGED derived

\* The scripts of SpecKeys, with such exceptions.
LockNext ==
    \/ KeysNext
    \/ \E p \in Procs : RaiseInBlock(p)

SpecLock == KeysInit /\ [][LockNext]_vars

\* The call of p has ended, or has not begun.
Ended(p) == pc[p] \in {"idle", "return", "raised"}

(***************************************************************************)
(* C28.  Lock release and no nesting: when a getter call has ended, by a   *)
(* return or by an exception raised in the expiry check, the download, the *)
(* reading or the cleaning, the process does not hold the download lock;   *)
(* the step that ends a call inside the with block frees the lock; a       *)
(* process that comes to the with statement does not hold the lock, also   *)
(* when a sort key helper called the getter, and the lock is taken only    *)
(* when it is free.                                                        *)
(***************************************************************************)
C28_LockRelease ==
    /\ [](\A p \in Procs :
            /\ Ended(p) => lock # p
            /\ pc[p] = "with" => lock # p
            /\ InWithBlock(p) => lock = p)
    /\ [][\A p \in Procs :
            /\ (InWithBlock(p) /\ Ended(p)') => lock' = NoProc
            /\ (lock # p /\ lock' = p) => (lock = NoProc /\ pc[p] = "with")]_vars

\* A getter called by a sort key helper raises while it reads the cache
\* file, and the lock is free.
C28_Witness ==
    \E p \in Procs :
        /\ InHelper(p)
        /\ pc[p] = "raised"
        /\ log[p] = << "lock", "stat", "raise" >>
        /\ lock = NoProc

\* The second getter call of a helper, get_products after get_categories,
\* is inside the with block after the first has left it.
C28_SecondCall ==
    \E p \in Procs :
        /\ InHelper(p)
        /\ ncalls = 2
        /\ memo[p]["categories"].set
        /\ res[p] = "products"
        /\ pc[p] = "check"
        /\ lock = p


(***************************************************************************)
(* C29.  uniquify_header returns as many fields as it was given, and the   *)
(* names it returns are pairwise distinct, also for a header that already  *)
(* holds a name "X [n]" next to repeated fields X.                         *)
(***************************************************************************)
C29_UniqueNames ==
    fixed # <<>> =>
        /\ Len(fixed[1]) = Len(line)
        /\ \A i, j \in 1..Len(fixed[1]) : i # j => fixed[1][i] # fixed[1][j]

\* The part of C29 that the code keeps: the number of fields, and every
\* field still starting with the name it had (up to the white space stripped
\* from the ends of the line).
C29_SameFields ==
    fixed # <<>> =>
        /\ Len(fixed[1]) = Len(line)
        /\ \A i \in 1..Len(line) :
              LET given == strip(line)[i]
              IN  /\ Len(fixed[1][i]) >= Len(given)
                  /\ SubSeq(fixed[1][i], 1, Len(given)) = given

\* "A,A,A [1]" has become "A [1],A [2],A [1]".
C29_Clash ==
    /\ line = <<"A", "A", "A [1]">>
    /\ Len(fixed) >= 1
    /\ fixed[1] = <<"A [1]", "A [2]", "A [1]">>


(***************************************************************************)
(* The report generators sort the products with                           *)
(*     sorted(products, key=cc_browser.product_key_by_cat_and_name)        *)
(* and then walk through them with                                         *)
(*     itertools.groupby(products, key=cc_browser.product_key_by_category) *)
(* sorted() is stable and compares the keys as strings; groupby() begins a *)
(* new group whenever the key differs from the key of the item before.     *)
(***************************************************************************)
MaxGrouped == 3   \* products sorted and grouped

\* The products with the keys they are sorted by, and with the keys they
\* are grouped by.
KeyedByCatAndName(sort, products) ==
    [n \in 1..Len(products) |->
        [key |-> product_key_by_cat_and_name(sort, products[n]), item |-> products[n]]]

KeyedByCategory(sort, products) ==
    [n \in 1..Len(products) |->
        [key |-> product_key_by_category(sort, products[n]), item |-> products[n]]]

\* sorted(): the last item goes behind the items whose keys are not greater.
RECURSIVE sorted_by_key(_)
sorted_by_key(pairs) ==
    IF pairs = <<>> THEN <<>>
    ELSE LET rest == sorted_by_key(SubSeq(pairs, 1, Len(pairs) - 1))
             last == pairs[Len(pairs)]
             n == Cardinality({k \in 1..Len(rest) : ~StrLess(last.key, rest[k].key)})
         IN  SubSeq(rest, 1, n) \o <<last>> \o SubSeq(rest, n + 1, Len(rest))

\* itertools.groupby(): the last item joins the last group if it has its
\* key, and begins a group if not.
RECURSIVE groupby(_)
groupby(pairs) ==
    IF pairs = <<>> THEN <<>>
    ELSE LET rest == groupby(SubSeq(pairs, 1, Len(pairs) - 1))
             last == pairs[Len(pairs)]
         IN  IF rest # <<>> /\ rest[Len(rest)].key = last.key
             THEN [rest EXCEPT ![Len(rest)].members = Append(@, last.item)]
             ELSE Append(rest, [key |-> last.key, members |-> <<last.item>>])

Unkeyed(pairs) == [n \in 1..Len(pairs) |-> pairs[n].item]

\* Products of the categories A, A:B and Bags, known or not.
GroupedProducts ==
    {ProductRow(name, "1001", category) :
        name \in {"A", "Z", "c"}, category \in {"A", "A:B", "Bags"}}

GroupedCategories ==
    { <<>>,
      <<CategoryRow("Bags", "5")>>,
      <<CategoryRow("A", "5"), CategoryRow("Bags", "5")>>,
      <<CategoryRow("A", "10"), CategoryRow("A:B", "5")>> }

GroupInit ==
    /\ BrowserIdle
    /\ HeaderIdle
    /\ VariantsIdle
    /\ KeysIdle
    /\ PriceIdle
    /\ sortargs \in [categories : GroupedCategories,
                     products : SeqsUpTo(GroupedProducts, MaxGrouped)]
    /\ sortkeys = <<>>
    /\ SortUnused

CallSorted ==
    /\ ~ordered.set
    /\ LET sort == _init_category_sort(sortargs.categories).sort
       IN  ordered' = [set |-> TRUE,
                       products |-> Unkeyed(sorted_by_key(
                                        KeyedByCatAndName(sort, sortargs.products)))]
    /\ UNCHANGED << sortargs, sortkeys, grouped, browser, headerv, variantsv, keysv, pricev >>

CallGroupby ==
    /\ ordered.set
    /\ ~grouped.set
    /\ LET sort == _init_category_sort(sortargs.categories).sort
       IN  grouped' = [set |-> TRUE,
                       groups |-> groupby(KeyedByCategory(sort, ordered.products))]
    /\ UNCHANGED << sortargs, sortkeys, ordered, browser, headerv, variantsv, keysv, pricev >>

GroupNext == CallSorted \/ CallGroupby

SpecGroup == GroupInit /\ [][GroupNext]_vars

\* The category keys of the products given.
CategoryKeys ==
    {product_key_by_category(_init_category_sort(sortargs.categories).sort,
                             sortargs.products[n]) : n \in 1..Len(sortargs.products)}

\* One category key begins with the other one and a colon.
Nested(k1, k2) ==
    /\ Len(k2) > Len(k1)
    /\ SubSeq(k2, 1, Len(k1) + 1) = k1 \o ":"

(***************************************************************************)
(* C30.  Grouping by category after sorting: once the products are sorted  *)
(* by product_key_by_cat_and_name, the products of one                     *)
(* product_key_by_category are next to each other, so that groupby() makes *)
(* one group for each category key, also for the categories that are not   *)
(* known, whose key is the category name.                                  *)
(***************************************************************************)
C30_OneGroupPerCategory ==
    grouped.set =>
        /\ Len(grouped.groups) = Cardinality(CategoryKeys)
        /\ \A g, h \in 1..Len(grouped.groups) :
              g # h => grouped.groups[g].key # grouped.groups[h].key

\* The part of C30 that the code keeps: where no category key is another
\* one followed by a colon, there is one group for each category key, and
\* the groups hold the products given.
C30_NoNestedKeys ==
    (grouped.set /\ \A k1, k2 \in CategoryKeys : ~Nested(k1, k2)) =>
        /\ Len(grouped.groups) = Cardinality(CategoryKeys)
        /\ \A g, h \in 1..Len(grouped.groups) :
              g # h => grouped.groups[g].key # grouped.groups[h].key

\* The products A and Z of the unknown category A have the product c of the
\* unknown category A:B between them, and groupby() has made three groups.
C30_Split ==
    /\ grouped.set
    /\ sortargs.categories = <<>>
    /\ ordered.products = << ProductRow("A", "1001", "A"),
                             ProductRow("c", "1001", "A:B"),
                             ProductRow("Z", "1001", "A") >>
    /\ Len(grouped.groups) = 3
    /\ Cardinality(CategoryKeys) = 2

\* Two groups of known categories, sorted by Sort and not by name.
C30_Grouped ==
    /\ grouped.set
    /\ sortargs.categories = <<CategoryRow("A", "10"), CategoryRow("A:B", "5")>>
    /\ Len(sortargs.products) = 3
    /\ Len(grouped.groups) = 2
    /\ grouped.groups[1].key = "00005"
    /\ Len(grouped.groups[2].members) = 2

====
